---- MODULE Spec2Model ----
(***************************************************************************)
(* School inventory SaaS: invitation redemption (routers/auth.py,          *)
(* services/auth_service.py, models/invitation.py), the subscription       *)
(* lifecycle (services/subscription_service.py, routers/subscriptions.py), *)
(* the role gates (dependencies.py, routers/invitations.py,                *)
(* routers/user_admin.py), assets with their QR codes and audit log        *)
(* (services/asset_service.py, services/qr_service.py) and incidents       *)
(* (services/incident_service.py).                                         *)
(* Database rows are the state; every commit is one atomic step.           *)
(***************************************************************************)
EXTENDS Integers, Sequences, FiniteSets, TLC

VARIABLES
    users,          \* table users: sequence of rows, id = position
    user_roles,     \* table user_roles: set of (user_id, role_id, school_id)
    invitations,    \* table invitations: token -> row
    now,            \* the clock read by datetime.now(timezone.utc)
    reg,            \* POST /auth/register/invitation requests: position and response
    subs,           \* table subscriptions: sequence of rows, id = position
    payments,       \* table payments: sequence of rows
    today,          \* the clock read by date.today()
    last,           \* the last subscription operation handled and its response
    creq,           \* POST /subscriptions/ requests running concurrently
    roles,          \* table roles: id -> name
    outbox,         \* invitation emails handed to the mail server
    alast,          \* the last role-gated operation handled and its response
    assets,         \* table assets: sequence of rows, id = position
    qr_codes,       \* table qr_codes: sequence of rows, id = position
    asset_events,   \* table asset_events: sequence of rows, in insertion order
    incidents,      \* table incidents: sequence of rows, id = position
    utcnow,         \* the clock read by datetime.utcnow()
    qreq,           \* QR generate/regenerate requests running concurrently
    aslast,         \* the last asset or incident operation handled and its response
    asset_categories,   \* table asset_categories: sequence of rows, id = position
    clast           \* the last category operation handled and its response

regVars == <<users, user_roles, invitations, now, reg>>
subVars == <<subs, payments, today, last, creq>>
authVars == <<roles, outbox, alast>>
assetVars == <<assets, qr_codes, asset_events, incidents, utcnow, qreq, aslast>>
catVars == <<asset_categories, clast>>
vars == <<users, user_roles, invitations, now, reg, subs, payments, today, last, creq,
          roles, outbox, alast, assets, qr_codes, asset_events, incidents, utcnow, qreq,
          aslast, asset_categories, clast>>

\* What the registration steps, and the subscription operations, never touch.
outsideReg == <<subVars, authVars, assetVars, catVars>>
outsideSub == <<regVars, authVars, assetVars, catVars>>
outsideAuth == <<subVars, assetVars, catVars>>
outsideAsset == <<regVars, subVars, authVars, catVars>>
outsideCat == <<regVars, subVars, authVars, assetVars>>

----------------------------------------------------------------------------
(* Bounds *)

MaxTime == 2
MaxReqs == 2
MaxSubs == 2
MaxPayments == 2
MaxDay == 2

----------------------------------------------------------------------------
(* Values *)

None == <<>>
Some(x) == <<x>>

Emails == {"ana@school.test", "bo@school.test"}
Tokens == {"t1", "t2"}
UnknownToken == "t0"
UserStatus == {"pending", "active", "suspended"}
ReqIds == 1..MaxReqs

\* The role and school an invitation grants (data of the row, fixed per token).
InvRole == [t \in Tokens |-> IF t = "t1" THEN 2 ELSE 3]
InvSchool == [t \in Tokens |-> "s1"]

NoResp == [code |-> 0, detail |-> ""]
Resp(c, d) == [code |-> c, detail |-> d]

----------------------------------------------------------------------------
(* Invitation model *)

\* Invitation.is_valid, evaluated at read time against the clock.
is_valid_at_creation(inv, t) == inv.used_at = None /\ inv.expires_at > 0
is_valid_expired_now(inv, t) == inv.used_at = None /\ inv.expires_at >= t
is_valid(inv, t) == inv.used_at = None /\ inv.expires_at > t

\* invitation_service.get_invitation_by_token: the row with that token, if any.
get_invitation_by_token(tok) ==
    IF tok \in DOMAIN invitations THEN Some(tok) ELSE None

\* invitation_service.mark_invitation_as_used: stamps used_at and commits.
mark_invitation_as_used(tok, t) ==
    [invitations EXCEPT ![tok].used_at = Some(t)]

\* users.email is UNIQUE: an INSERT of a second row with the email fails.
EmailTakenNoConstraint(e) == FALSE
EmailTaken(e) == \E i \in 1..Len(users) : users[i].email = e

\* db.query(User).filter(User.email == e).first()
UsersByEmail(e) == {i \in 1..Len(users) : users[i].email = e}

----------------------------------------------------------------------------
(* POST /auth/register/invitation, one action per database round trip *)

\* routers/auth.py 44-56: load the invitation and check is_valid.
RegLookup(r, tok) ==
    /\ reg[r].pc = "new"
    /\ \A q \in ReqIds : q < r => reg[q].pc # "new"
    /\ IF get_invitation_by_token(tok) = None
       THEN reg' = [reg EXCEPT ![r] = [@ EXCEPT !.pc = "done", !.token = tok,
                        !.resp = Resp(400, "Invitation token not found.")]]
       ELSE IF ~is_valid(invitations[tok], now)
       THEN reg' = [reg EXCEPT ![r] = [@ EXCEPT !.pc = "done", !.token = tok,
                        !.resp = Resp(400, "Invalid or expired invitation token.")]]
       ELSE reg' = [reg EXCEPT ![r] = [@ EXCEPT !.pc = "valid", !.token = tok]]
    /\ UNCHANGED <<users, user_roles, invitations, now>>
    /\ UNCHANGED outsideReg

\* routers/auth.py 58-63: the UserCreate handed to the service takes its email
\* from the invitation; an email submitted in the payload is not read
\* (schemas/invitation.py 31-34 declares no such field).
UserCreateEmailFromPayload(inv, payload_email) ==
    IF payload_email = None THEN inv.email ELSE payload_email[1]
UserCreateEmail(inv, payload_email) == inv.email

\* auth_service.py 61: the statuses of an existing user that block registration.
BlocksRegistrationActiveOnly(st) == st = "active"
BlocksRegistration(st) == st = "active" \/ st = "suspended"

\* auth_service.py 53-65: the email comparison and the existing-user query.
RegCheckExisting(r) ==
    /\ reg[r].pc = "valid"
    /\ LET inv == invitations[reg[r].token]
           user_in_email == UserCreateEmail(inv, reg[r].payload_email)
           found == UsersByEmail(user_in_email)
       IN  IF user_in_email # inv.email
           THEN reg' = [reg EXCEPT ![r] = [@ EXCEPT !.pc = "done",
                        !.resp = Resp(400, "Registration email does not match invitation email.")]]
           ELSE IF found = {}
           THEN reg' = [reg EXCEPT ![r].pc = "checked"]
           ELSE \E u \in found :
                  IF BlocksRegistration(users[u].status)
                  THEN reg' = [reg EXCEPT ![r] = [@ EXCEPT !.pc = "done",
                        !.resp = Resp(400, "User with this email already exists and is active/suspended.")]]
                  ELSE reg' = [reg EXCEPT ![r].pc = "checked"]
    /\ UNCHANGED <<users, user_roles, invitations, now>>
    /\ UNCHANGED outsideReg

\* auth_service.py 74-95: INSERT the user (flush), INSERT the UserRole, commit.
\* A duplicate email raises IntegrityError, which routers/auth.py 81-88 turns
\* into a 500; nothing of the transaction is persisted.
RegInsert(r) ==
    /\ reg[r].pc = "checked"
    /\ LET inv == invitations[reg[r].token]
           user_in_email == UserCreateEmail(inv, reg[r].payload_email)
           uid == Len(users) + 1
       IN  IF EmailTaken(user_in_email)
           THEN /\ reg' = [reg EXCEPT ![r] = [@ EXCEPT !.pc = "done",
                        !.resp = Resp(500, "An unexpected error occurred during registration with invitation.")]]
                /\ UNCHANGED <<users, user_roles>>
           ELSE /\ users' = Append(users, [email |-> user_in_email, status |-> "active",
                                           deleted_at |-> None])
                /\ user_roles' = user_roles \cup
                        {[user_id |-> uid, role_id |-> inv.role_id, school_id |-> inv.school_id]}
                /\ reg' = [reg EXCEPT ![r] = [@ EXCEPT !.pc = "committed", !.user_id = uid]]
    /\ UNCHANGED <<invitations, now>>
    /\ UNCHANGED outsideReg

\* The database fails during flush or commit: the session is discarded with
\* nothing persisted, and routers/auth.py 81-88 answers 500.
RegInsertFail(r) ==
    /\ reg[r].pc = "checked"
    /\ reg' = [reg EXCEPT ![r] = [@ EXCEPT !.pc = "done",
                        !.resp = Resp(500, "An unexpected error occurred during registration with invitation.")]]
    /\ UNCHANGED <<users, user_roles, invitations, now>>
    /\ UNCHANGED outsideReg

\* routers/auth.py 73-77: mark the invitation used (its own commit), answer 201.
RegMark(r) ==
    /\ reg[r].pc = "committed"
    /\ invitations' = mark_invitation_as_used(reg[r].token, now)
    /\ reg' = [reg EXCEPT ![r] = [@ EXCEPT !.pc = "done", !.resp = Resp(201, "created")]]
    /\ UNCHANGED <<users, user_roles, now>>
    /\ UNCHANGED outsideReg

\* mark_invitation_as_used raises (the database fails after the user was
\* committed at auth_service.py 94): routers/auth.py 81-88 answers 500.
RegMarkFail(r) ==
    /\ reg[r].pc = "committed"
    /\ reg' = [reg EXCEPT ![r] = [@ EXCEPT !.pc = "done",
                        !.resp = Resp(500, "An unexpected error occurred during registration with invitation.")]]
    /\ UNCHANGED <<users, user_roles, invitations, now>>
    /\ UNCHANGED outsideReg

\* Time passes.
Tick ==
    /\ now < MaxTime
    /\ now' = now + 1
    /\ UNCHANGED <<users, user_roles, invitations, reg>>
    /\ UNCHANGED outsideReg

----------------------------------------------------------------------------
(* Subscription model *)

SubStatus == {"inactive", "active", "past_due", "canceled", "expired"}
PlanIds == {"p1", "p2"}
UnknownPlan == "p0"
SchoolIds == {"s1"}
UnknownSchool == "s0"
GatewayIds == {"pi_1", "pi_2"}
SubIds == 1..MaxSubs

\* Plan.duration_days of the plan catalogue.
duration_days == [p \in PlanIds |-> IF p = "p1" THEN 1 ELSE 2]

Rows == 1..Len(subs)

\* Renewals are followed while the period ends within this horizon.
MaxEndDate == MaxDay + 3

\* The last operation: what was asked, what the row was before, the answer.
Op(o, sid, ps, res, n) ==
    [op |-> o, sub |-> sid, prev_status |-> ps, result |-> res, n |-> n]
NoOp == Op("none", 0, "", "", 0)
NewCreate == [pc |-> "new", school |-> "", plan |-> "", result |-> "", sub |-> 0]

\* subscription_service.py 75-83: the rows of the pair in status active,
\* inactive or past_due; .first() takes one of them, in no stated order.
ExistingSubs(sc, pl) ==
    {i \in Rows : /\ subs[i].school_id = sc
                  /\ subs[i].plan_id = pl
                  /\ subs[i].status \in {"active", "inactive", "past_due"}}

\* subscription_service.py 96-105: the row a creation inserts.
NewSubscriptionEndsToday(sc, pl) ==
    [school_id |-> sc, plan_id |-> pl, start_date |-> today,
     end_date |-> today, status |-> "inactive"]
NewSubscription(sc, pl) ==
    [school_id |-> sc, plan_id |-> pl, start_date |-> today,
     end_date |-> today + duration_days[pl], status |-> "inactive"]

\* subscription_service.py 144-149: where the renewed period starts.
RenewalStartFromEnd(row, d) == IF row.end_date < d THEN d ELSE row.end_date
RenewalStart(row, d) == IF row.end_date < d THEN d ELSE row.end_date + 1

\* subscription_service.py 151-153: the renewed row.
Renewed(row, d) ==
    [row EXCEPT !.start_date = RenewalStart(row, d),
                !.end_date = RenewalStart(row, d) + duration_days[row.plan_id],
                !.status = "active"]

\* subscription_service.py 209-211: first activation of an inactive row.
ActivatedKeepsDates(row, d) == [row EXCEPT !.status = "active"]
Activated(row, d) ==
    [row EXCEPT !.status = "active", !.start_date = d,
                !.end_date = d + duration_days[row.plan_id]]

\* subscription_service.py 235-238: the rows the sweep selects.
ExpiredSubsNoStatusFilter(d) == {i \in Rows : subs[i].end_date < d}
ExpiredSubsEndingToday(d) ==
    {i \in Rows : subs[i].end_date <= d /\ subs[i].status \in {"active", "past_due"}}
ExpiredSubs(d) ==
    {i \in Rows : subs[i].end_date < d /\ subs[i].status \in {"active", "past_due"}}

\* subscription_service.py 63-109 (POST /subscriptions/).
create_subscription(sc, pl) ==
    /\ IF sc \notin SchoolIds
       THEN /\ last' = Op("create", 0, "", "400 school not found", 0)
            /\ UNCHANGED subs
       ELSE IF pl \notin PlanIds
       THEN /\ last' = Op("create", 0, "", "400 plan not found", 0)
            /\ UNCHANGED subs
       ELSE IF ExistingSubs(sc, pl) # {}
       THEN \E e \in ExistingSubs(sc, pl) :
              /\ IF subs[e].status = "inactive"
                 THEN last' = Op("create", e, "inactive", "201 existing", 0)
                 ELSE last' = Op("create", e, subs[e].status, "400 duplicate", 0)
              /\ UNCHANGED subs
       ELSE /\ Len(subs) < MaxSubs
            /\ subs' = Append(subs, NewSubscription(sc, pl))
            /\ last' = Op("create", Len(subs) + 1, "", "201 created", 0)
    /\ UNCHANGED <<payments, today, creq>>
    /\ UNCHANGED outsideSub

\* subscription_service.py 136-158 (POST /subscriptions/{id}/renew).
renew_subscription(sid) ==
    /\ IF sid \notin Rows
       THEN /\ last' = Op("renew", sid, "", "404", 0)
            /\ UNCHANGED subs
       ELSE /\ Renewed(subs[sid], today).end_date <= MaxEndDate
            /\ subs' = [subs EXCEPT ![sid] = Renewed(subs[sid], today)]
            /\ last' = Op("renew", sid, subs[sid].status, "200", 0)
    /\ UNCHANGED <<payments, today, creq>>
    /\ UNCHANGED outsideSub

\* subscription_service.py 161-223, handle_successful_payment_webhook with
\* record_payment (POST /webhooks/payments, event payment_intent.succeeded).
handle_payment_webhook(sid, gid) ==
    /\ IF sid \notin Rows
       THEN /\ last' = Op("webhook", sid, "", "200 issue logged", 0)
            /\ UNCHANGED <<subs, payments>>
       ELSE /\ Len(payments) < MaxPayments
            /\ payments' = Append(payments, [subscription_id |-> sid,
                                gateway_payment_id |-> gid, status |-> "succeeded"])
            /\ IF subs[sid].status = "inactive"
               THEN subs' = [subs EXCEPT ![sid] = Activated(subs[sid], today)]
               ELSE /\ Renewed(subs[sid], today).end_date <= MaxEndDate
                    /\ subs' = [subs EXCEPT ![sid] = Renewed(subs[sid], today)]
            /\ last' = Op("webhook", sid, subs[sid].status, "200 processed", 0)
    /\ UNCHANGED <<today, creq>>
    /\ UNCHANGED outsideSub

\* A body posted to /webhooks/payments. shape: text that is not JSON, a JSON
\* array, or a JSON object. data: the key is absent, null, or an object whose
\* "object" carries id, amount_received and metadata.subscription_id; a
\* subscription_id is absent, a string that is no UUID, a number, or the
\* UUID of row sub.
Payload(sh, ty, da, id, am, si, sub) ==
    [shape |-> sh, type |-> ty, data |-> da, id |-> id, amount_received |-> am,
     subscription_id |-> si, sub |-> sub]

EventTypes == {"payment_intent.succeeded", "payment_intent.payment_failed"}

WebhookPayloads ==
    {Payload(sh, "payment_intent.succeeded", "absent", None, "absent", "absent", 1) :
        sh \in {"malformed", "array"}}
    \cup {Payload("object", ty, da, None, "absent", "absent", 1) :
            ty \in EventTypes, da \in {"absent", "null"}}
    \cup {Payload("object", ty, "object", id, am, si, sub) :
            ty \in EventTypes, id \in {None, Some("pi_1")},
            am \in {"absent", "text", "number"},
            si \in {"absent", "text", "number", "uuid"}, sub \in SubIds}

\* routers/subscriptions.py 204-232: what the route answers before it calls
\* the service ("" when it goes on to the service). dict.get returns its
\* default only for an absent key, and UUID() of a number is no ValueError.
WebhookParse(p) ==
    IF p.shape = "malformed" THEN "400 invalid json"
    ELSE IF p.shape = "array" \/ p.data = "null" THEN "500"
    ELSE IF p.type # "payment_intent.succeeded" THEN "200 not handled"
    ELSE IF p.data = "absent" \/ p.id = None \/ p.amount_received = "absent"
            \/ p.subscription_id = "absent"
    THEN "400 missing fields"
    ELSE IF p.subscription_id = "number" THEN "500"
    ELSE IF p.subscription_id = "text" \/ p.amount_received = "text"
    THEN "400 invalid format"
    ELSE ""

\* POST /webhooks/payments
webhooks_payments(p) ==
    IF WebhookParse(p) = ""
    THEN handle_payment_webhook(p.sub, p.id[1])
    ELSE /\ last' = Op("webhook", 0, "", WebhookParse(p), 0)
         /\ UNCHANGED <<subs, payments, today, creq>>
         /\ UNCHANGED outsideSub

\* subscription_service.py 230-248: the expiry sweep.
check_and_update_subscription_statuses ==
    /\ subs' = [i \in Rows |-> IF i \in ExpiredSubs(today)
                               THEN [subs[i] EXCEPT !.status = "expired"]
                               ELSE subs[i]]
    /\ last' = Op("sweep", 0, "", "", Cardinality(ExpiredSubs(today)))
    /\ UNCHANGED <<payments, today, creq>>
    /\ UNCHANGED outsideSub

\* A day passes.
NextDay ==
    /\ today < MaxDay
    /\ today' = today + 1
    /\ last' = Op("day", 0, "", "", 0)
    /\ UNCHANGED <<subs, payments, creq>>
    /\ UNCHANGED outsideSub

----------------------------------------------------------------------------
(* POST /subscriptions/ as concurrent requests: the lookup and the INSERT   *)
(* are separate statements, and no lock or constraint ties them together.   *)

\* subscription_service.py 65-93: validation and the existing-row lookup.
CreateCheck(c, sc, pl) ==
    /\ creq[c].pc = "new"
    /\ \A q \in ReqIds : q < c => creq[q].pc # "new"
    /\ IF sc \notin SchoolIds
       THEN creq' = [creq EXCEPT ![c] = [pc |-> "done", school |-> sc, plan |-> pl,
                        result |-> "400 school not found", sub |-> 0]]
       ELSE IF pl \notin PlanIds
       THEN creq' = [creq EXCEPT ![c] = [pc |-> "done", school |-> sc, plan |-> pl,
                        result |-> "400 plan not found", sub |-> 0]]
       ELSE IF ExistingSubs(sc, pl) # {}
       THEN \E e \in ExistingSubs(sc, pl) :
              IF subs[e].status = "inactive"
              THEN creq' = [creq EXCEPT ![c] = [pc |-> "done", school |-> sc, plan |-> pl,
                        result |-> "201 existing", sub |-> e]]
              ELSE creq' = [creq EXCEPT ![c] = [pc |-> "done", school |-> sc, plan |-> pl,
                        result |-> "400 duplicate", sub |-> 0]]
       ELSE creq' = [creq EXCEPT ![c] = [pc |-> "checked", school |-> sc, plan |-> pl,
                        result |-> "", sub |-> 0]]
    /\ UNCHANGED <<subs, payments, today, last>>
    /\ UNCHANGED outsideSub

\* subscription_service.py 96-109: INSERT and commit. The table has no
\* uniqueness constraint on (school_id, plan_id), so the INSERT succeeds.
CreateInsert(c) ==
    /\ creq[c].pc = "checked"
    /\ Len(subs) < MaxSubs
    /\ subs' = Append(subs, NewSubscription(creq[c].school, creq[c].plan))
    /\ creq' = [creq EXCEPT ![c] = [@ EXCEPT !.pc = "done", !.result = "201 created",
                        !.sub = Len(subs) + 1]]
    /\ UNCHANGED <<payments, today, last>>
    /\ UNCHANGED outsideSub

----------------------------------------------------------------------------
(* Role-based authorization *)

\* dependencies.py 20-24: the role ids.
SUPER_ADMIN == 1
SCHOOL_ADMIN == 2

AuthSchools == {"s1", "s2"}

\* The other naming of the catalogue, the one services/user_admin.py 206-213
\* and dependencies.py 157, 192 compare against.
RoleNamesSnake == [i \in 1..4 |-> <<"super_admin", "school_admin", "teacher", "inventory_manager">>[i]]

Callers == 1..Len(users)

AOp(o, c, t, code) == [op |-> o, caller |-> c, target |-> t, code |-> code, school |-> ""]

\* routers/invitations.py 34-38: select(Role).where(Role.name == "Super Admin").
RolesNamed(n) == {i \in DOMAIN roles : roles[i] = n}

\* routers/invitations.py 47-51: the caller's UserRole rows of that role.
HeldRowsAnyRole(u, rid) == {x \in user_roles : x.user_id = u}
HeldRows(u, rid) == {x \in user_roles : x.user_id = u /\ x.role_id = rid}

\* Invitation.token defaults to uuid4: a token no invitation has yet.
FreshTokens == Tokens \ DOMAIN invitations

\* invitation_service.create_invitation: a fresh token, unused, expiring later.
create_invitation(tok, email, rid, sc) ==
    [t \in DOMAIN invitations \cup {tok} |->
        IF t = tok
        THEN [email |-> email, role_id |-> rid, school_id |-> sc,
              expires_at |-> now + 1, used_at |-> None]
        ELSE invitations[t]]

\* routers/invitations.py 66-88: the outcomes that end the request with 500.
\* A failure of send_invitation_email is caught and printed (73-74).
InviteFailsOnEmail(outcome) == outcome \in {"db_failed", "send_failed"}
InviteFails(outcome) == outcome = "db_failed"

\* routers/invitations.py 20-92, POST /invitations/. The caller is whoever
\* auth_service.get_current_user resolves from the bearer token. outcome is
\* what the database and the mail server do once the role check has passed.
create_new_invitation(caller, email, rid, sc, outcome) ==
    /\ caller \in Callers
    /\ IF RolesNamed("Super Admin") = {}
       THEN /\ alast' = AOp("invite", caller, 0, 500)
            /\ UNCHANGED <<invitations, outbox>>
       ELSE LET super_admin_role == CHOOSE i \in RolesNamed("Super Admin") : TRUE
                held == HeldRows(caller, super_admin_role)
            IN  IF held = {}
                THEN /\ alast' = AOp("invite", caller, 0, 403)
                     /\ UNCHANGED <<invitations, outbox>>
                ELSE IF Cardinality(held) > 1 \/ InviteFails(outcome)
                THEN /\ alast' = AOp("invite", caller, 0, 500)
                     /\ UNCHANGED <<invitations, outbox>>
                ELSE LET tok == CHOOSE t \in FreshTokens : TRUE
                     IN
                       /\ FreshTokens # {}
                       /\ invitations' = create_invitation(tok, email, rid, sc)
                       /\ outbox' = IF outcome = "sent"
                                    THEN outbox \cup {[to |-> email, token |-> tok]}
                                    ELSE outbox
                       /\ alast' = AOp("invite", caller, 0, 201)
    /\ UNCHANGED <<users, user_roles, now, reg, roles>>
    /\ UNCHANGED outsideAuth

----------------------------------------------------------------------------
(* The role gates of dependencies.py and the /admin-users router *)

\* dependencies.py 26-80: the bearer token names an existing user; a deleted
\* or not active account is answered 401.
get_current_user(u) ==
    IF users[u].deleted_at # None THEN 401
    ELSE IF users[u].status # "active" THEN 401
    ELSE 200

\* dependencies.py 82-91.
get_current_active_user(u) ==
    IF get_current_user(u) # 200 THEN get_current_user(u)
    ELSE IF users[u].status # "active" THEN 403
    ELSE 200

\* dependencies.py 94-108: existence of a UserRole row; the school filter
\* applies only when a school is given.
check_user_role_any(u, rid, sc) == \E x \in user_roles : x.user_id = u
check_user_role(u, rid, sc) ==
    \E x \in user_roles :
        /\ x.user_id = u
        /\ x.role_id = rid
        /\ (sc # None => x.school_id = sc[1])

\* dependencies.py 111-123.
get_super_admin(u) ==
    IF get_current_active_user(u) # 200 THEN get_current_active_user(u)
    ELSE IF ~check_user_role(u, SUPER_ADMIN, None) THEN 403
    ELSE 200

\* dependencies.py 125-142: the school-admin gate as first defined.
get_school_admin_with_bypass(u, sc) ==
    IF get_current_active_user(u) # 200 THEN get_current_active_user(u)
    ELSE IF check_user_role(u, SUPER_ADMIN, None) THEN 200
    ELSE IF ~check_user_role(u, SCHOOL_ADMIN, Some(sc)) THEN 403
    ELSE 200

\* dependencies.py 20-24: inside this module the name Role is the class of
\* role ids, not the mapped model, so db.query(UserRole).join(Role) raises.
RoleIsMappedModel == FALSE

\* dependencies.py 180-215: check_user_permission(required_role). The query
\* raises, the handler at 208-213 raises in turn (logger is the module
\* fastapi.logger), and the request ends in a 500.
check_user_permission(u, required_role) ==
    IF get_current_user(u) # 200 THEN get_current_user(u)
    ELSE IF ~RoleIsMappedModel THEN 500
    ELSE IF \A x \in user_roles : ~(x.user_id = u /\ roles[x.role_id] = required_role) THEN 403
    ELSE 200

\* dependencies.py 220: the name get_school_admin is bound again, to
\* check_user_permission("school_admin"); this is what importers receive.
get_school_admin(u, sc) == check_user_permission(u, "school_admin")

\* A route that depends on get_school_admin for school sc.
school_admin_gate(caller, sc) ==
    /\ caller \in Callers
    /\ alast' = [AOp("school_gate", caller, 0, get_school_admin(caller, sc)) EXCEPT !.school = sc]
    /\ UNCHANGED <<users, user_roles, invitations, now, reg, roles, outbox>>
    /\ UNCHANGED outsideAuth

\* routers/user_admin.py 24-28: the router-level dependency refuses the request.
Refused(op, caller, target, code) ==
    /\ alast' = AOp(op, caller, target, code)
    /\ UNCHANGED users

\* services/user_admin.py: the row an operation addresses, if not deleted.
LiveUser(t) == t \in 1..Len(users) /\ users[t].deleted_at = None

\* routers/user_admin.py 30-61 and services/user_admin.py 17-52.
list_all_users(caller) ==
    /\ caller \in Callers
    /\ IF get_super_admin(caller) # 200
       THEN Refused("list", caller, 0, get_super_admin(caller))
       ELSE alast' = AOp("list", caller, 0, 200) /\ UNCHANGED users
    /\ UNCHANGED <<user_roles, invitations, now, reg, roles, outbox>>
    /\ UNCHANGED outsideAuth

\* routers/user_admin.py 111-127 and services/user_admin.py 54-88.
get_user_details(caller, target) ==
    /\ caller \in Callers
    /\ IF get_super_admin(caller) # 200
       THEN Refused("get", caller, target, get_super_admin(caller))
       ELSE /\ alast' = AOp("get", caller, target, IF LiveUser(target) THEN 200 ELSE 404)
            /\ UNCHANGED users
    /\ UNCHANGED <<user_roles, invitations, now, reg, roles, outbox>>
    /\ UNCHANGED outsideAuth

\* services/user_admin.py 90-148 behind routers/user_admin.py 129-149:
\* PATCH with an optional email and an optional status.
update_user(target, email, st) ==
    IF ~LiveUser(target) THEN [code |-> 404, users |-> users]
    ELSE IF /\ email # None
            /\ email[1] # users[target].email
            /\ \E i \in 1..Len(users) :
                  i # target /\ users[i].email = email[1] /\ users[i].deleted_at = None
    THEN [code |-> 400, users |-> users]
    ELSE IF /\ email # None
            /\ \E i \in 1..Len(users) : i # target /\ users[i].email = email[1]
    THEN [code |-> 500, users |-> users]
    ELSE [code |-> 200,
          users |-> [users EXCEPT ![target] =
                        [@ EXCEPT !.email = IF email = None THEN @ ELSE email[1],
                                  !.status = IF st = None THEN @ ELSE st[1]]]]

update_user_details(caller, target, email, st) ==
    /\ caller \in Callers
    /\ IF get_super_admin(caller) # 200
       THEN Refused("update", caller, target, get_super_admin(caller))
       ELSE /\ alast' = AOp("update", caller, target, update_user(target, email, st).code)
            /\ users' = update_user(target, email, st).users
    /\ UNCHANGED <<user_roles, invitations, now, reg, roles, outbox>>
    /\ UNCHANGED outsideAuth

\* services/user_admin.py 377-449: set_user_status; activate_user (257-315)
\* and suspend_user (317-375) are the same with a fixed status.
set_user_status(target, new_status) ==
    IF ~LiveUser(target) THEN [code |-> 404, users |-> users]
    ELSE [code |-> 200, users |-> [users EXCEPT ![target].status = new_status]]

\* routers/user_admin.py 151-167.
activate_user_account(caller, target) ==
    /\ caller \in Callers
    /\ IF get_super_admin(caller) # 200
       THEN Refused("activate", caller, target, get_super_admin(caller))
       ELSE /\ alast' = AOp("activate", caller, target, set_user_status(target, "active").code)
            /\ users' = set_user_status(target, "active").users
    /\ UNCHANGED <<user_roles, invitations, now, reg, roles, outbox>>
    /\ UNCHANGED outsideAuth

\* routers/user_admin.py 169-185.
suspend_user_account(caller, target) ==
    /\ caller \in Callers
    /\ IF get_super_admin(caller) # 200
       THEN Refused("suspend", caller, target, get_super_admin(caller))
       ELSE /\ alast' = AOp("suspend", caller, target, set_user_status(target, "suspended").code)
            /\ users' = set_user_status(target, "suspended").users
    /\ UNCHANGED <<user_roles, invitations, now, reg, roles, outbox>>
    /\ UNCHANGED outsideAuth

\* routers/user_admin.py 187-204.
set_user_pending(caller, target) ==
    /\ caller \in Callers
    /\ IF get_super_admin(caller) # 200
       THEN Refused("set-pending", caller, target, get_super_admin(caller))
       ELSE /\ alast' = AOp("set-pending", caller, target, set_user_status(target, "pending").code)
            /\ users' = set_user_status(target, "pending").users
    /\ UNCHANGED <<user_roles, invitations, now, reg, roles, outbox>>
    /\ UNCHANGED outsideAuth

\* services/user_admin.py 150-190: soft delete.
block_user(target) ==
    IF ~LiveUser(target) THEN [code |-> 404, users |-> users]
    ELSE [code |-> 200,
          users |-> [users EXCEPT ![target] =
                        [@ EXCEPT !.deleted_at = Some(now), !.status = "suspended"]]]

\* routers/user_admin.py 206-230. The caller arrives as a dict, so the
\* self-deletion test (hasattr id) never fires.
delete_user_account(caller, target) ==
    /\ caller \in Callers
    /\ IF get_super_admin(caller) # 200
       THEN Refused("delete", caller, target, get_super_admin(caller))
       ELSE /\ alast' = AOp("delete", caller, target, block_user(target).code)
            /\ users' = block_user(target).users
    /\ UNCHANGED <<user_roles, invitations, now, reg, roles, outbox>>
    /\ UNCHANGED outsideAuth

----------------------------------------------------------------------------
(* Assets, their QR codes and their audit log (services/asset_service.py,  *)
(* services/qr_service.py, routers/assets.py, routers/qr_codes.py)          *)

MaxAssets == 2
MaxEvents == 3

Classrooms == {"c1", "c2"}
UnknownClassroom == "c0"
AssetIds == 1..MaxAssets

\* models/asset.py 18-23.
AssetStatusEnum == {"available", "in_repair", "missing", "decommissioned", "operational"}

\* A field of an update body: left out of the JSON, or set to a value
\* (None is JSON null). model_dump(exclude_unset=True) keeps the set ones.
Unset == <<"unset">>
Set(v) == <<"set", v>>

AsOp(o, u, t, code, note) == [op |-> o, user |-> u, target |-> t, code |-> code, note |-> note]
NoAsOp == AsOp("none", 0, 0, 0, "")

\* A QR request: the asset it names, the qr_codes row it read, its response.
NewQr == [pc |-> "new", asset |-> 0, existing |-> None, code |-> 0]

InitAssetFrozen ==
    /\ assets = <<>>
    /\ qr_codes = <<>>
    /\ asset_events = <<>>
    /\ incidents = <<>>
    /\ utcnow = 0
    /\ qreq = [q \in ReqIds |-> NewQr]
    /\ aslast = NoAsOp

\* routers/dashboard.py get_current_super_admin_user: the status the gate of
\* the asset routes answers with (200: the caller passes).
get_current_super_admin_user(u) ==
    IF RolesNamed("Super Admin") = {} THEN 500
    ELSE LET super_admin_role == CHOOSE i \in RolesNamed("Super Admin") : TRUE
         IN  IF HeldRows(u, super_admin_role) = {} THEN 403 ELSE 200

\* asset_service.log_asset_event: one row added to the session. The metadata
\* dictionary is not a column of AssetEvent and is not kept.
log_asset_event_dropped(ev, asset_id, event_type, user_id) == ev
log_asset_event(ev, asset_id, event_type, user_id) ==
    Append(ev, [asset_id |-> asset_id, user_id |-> user_id, event_type |-> event_type])

\* asset_service.get_asset and qr_service.get_asset: a row that is not soft-deleted.
get_asset(tbl, asset_id) ==
    IF asset_id \in DOMAIN tbl /\ tbl[asset_id].deleted_at = None THEN Some(asset_id) ELSE None

get_all_assets == {i \in DOMAIN assets : assets[i].deleted_at = None}

get_assets_by_classroom(c) ==
    {i \in DOMAIN assets : assets[i].classroom_id = c /\ assets[i].deleted_at = None}

\* routers/classrooms.py: the inventory of a classroom.
classroom_inventory(c) ==
    {i \in DOMAIN assets : assets[i].classroom_id = c /\ assets[i].deleted_at = None}

\* dashboard_service.get_dashboard_data: select(Asset), every row.
dashboard_assets == DOMAIN assets

\* asset_service.get_asset_events: the events of an asset id, whether or not
\* the asset is still active (insertion order here, newest first in the code).
get_asset_events(asset_id) == SelectSeq(asset_events, LAMBDA e : e.asset_id = asset_id)

\* qr_service.get_qr_code_by_asset_id: the rows of qr_codes for an asset.
QrRowsOf(tbl, asset_id) == {i \in DOMAIN tbl : tbl[i].asset_id = asset_id}

\* models/qr.py: asset_id is unique. A row for the asset may be inserted.
qr_asset_id_not_unique(tbl, asset_id) == TRUE
qr_asset_id_free(tbl, asset_id) == QrRowsOf(tbl, asset_id) = {}

asset_url(asset_id) == <<"https://issa-qr.vercel.app/assets", asset_id>>

\* qr_service.create_qr_code_for_asset: the existing row is kept, else one is inserted.
create_qr_code_for_asset(tbl, asset_id) ==
    IF QrRowsOf(tbl, asset_id) # {} THEN tbl
    ELSE Append(tbl, [asset_id |-> asset_id, qr_url |-> asset_url(asset_id)])

\* asset_service.create_asset: asset, event and QR row commit together.
create_asset(classroom_id, current_user_id) ==
    LET id == Len(assets) + 1
    IN  /\ assets' = Append(assets, [classroom_id |-> classroom_id, status |-> "available",
                                     created_by_id |-> current_user_id, deleted_at |-> None])
        /\ asset_events' = log_asset_event(asset_events, id, "asset_created", current_user_id)
        /\ qr_codes' = create_qr_code_for_asset(qr_codes, id)

\* POST /assets/
create_new_asset(caller, classroom_id) ==
    /\ caller \in Callers
    /\ Len(assets) < MaxAssets
    /\ Len(asset_events) < MaxEvents
    /\ LET gate == get_current_super_admin_user(caller)
       IN  IF gate # 200
           THEN /\ aslast' = AsOp("create", caller, 0, gate, "")
                /\ UNCHANGED <<assets, asset_events, qr_codes>>
           ELSE IF classroom_id \notin Classrooms
           THEN /\ aslast' = AsOp("create", caller, 0, 400, "")
                /\ UNCHANGED <<assets, asset_events, qr_codes>>
           ELSE /\ create_asset(classroom_id, caller)
                /\ aslast' = AsOp("create", caller, Len(assets) + 1, 201, "")
    /\ UNCHANGED <<incidents, utcnow, qreq>>
    /\ UNCHANGED outsideAsset

\* The keys of an update body whose value differs from the row's.
Changes(row, body) ==
    {k \in {"classroom_id", "status"} : body[k] # Unset /\ body[k] # Set(Some(row[k]))}

\* asset_service.update_asset on tables tbl, ev: the outcome and what is
\* committed. A null status breaks NOT NULL at the commit.
update_asset(tbl, ev, asset_id, body, current_user_id) ==
    IF get_asset(tbl, asset_id) = None
    THEN [result |-> "none", assets |-> tbl, asset_events |-> ev]
    ELSE LET row == tbl[asset_id]
             changes == Changes(row, body)
         IN  IF changes = {}
             THEN [result |-> "ok", assets |-> tbl, asset_events |-> ev]
             ELSE IF "status" \in changes /\ body.status = Set(None)
             THEN [result |-> "error", assets |-> tbl, asset_events |-> ev]
             ELSE [result |-> "ok",
                   assets |-> [tbl EXCEPT ![asset_id] =
                      [row EXCEPT !.classroom_id = IF "classroom_id" \in changes
                                                   THEN body.classroom_id[2][1] ELSE @,
                                  !.status = IF "status" \in changes
                                             THEN body.status[2][1] ELSE @]],
                   asset_events |-> log_asset_event(ev, asset_id, "asset_updated",
                                                    current_user_id)]

\* PUT /assets/{asset_id}
update_existing_asset(caller, asset_id, body) ==
    /\ caller \in Callers
    /\ Len(asset_events) < MaxEvents
    /\ LET gate == get_current_super_admin_user(caller)
           out == update_asset(assets, asset_events, asset_id, body, caller)
       IN  IF gate # 200
           THEN /\ aslast' = AsOp("update", caller, asset_id, gate, "")
                /\ UNCHANGED <<assets, asset_events>>
           ELSE /\ assets' = out.assets
                /\ asset_events' = out.asset_events
                /\ aslast' = AsOp("update", caller, asset_id,
                                  CASE out.result = "none" -> 404
                                    [] out.result = "error" -> 500
                                    [] OTHER -> 200, "")
    /\ UNCHANGED <<qr_codes, incidents, utcnow, qreq>>
    /\ UNCHANGED outsideAsset

\* asset_service.delete_asset on tables tbl, ev at time t.
delete_asset(tbl, ev, asset_id, current_user_id, t) ==
    IF get_asset(tbl, asset_id) = None
    THEN [result |-> "none", assets |-> tbl, asset_events |-> ev]
    ELSE [result |-> "ok",
          assets |-> [tbl EXCEPT ![asset_id] =
                        [@ EXCEPT !.deleted_at = Some(t), !.status = "decommissioned"]],
          asset_events |-> log_asset_event(ev, asset_id, "asset_deleted", current_user_id)]

\* DELETE /assets/{asset_id}
delete_single_asset(caller, asset_id) ==
    /\ caller \in Callers
    /\ Len(asset_events) < MaxEvents
    /\ LET gate == get_current_super_admin_user(caller)
           out == delete_asset(assets, asset_events, asset_id, caller, utcnow)
       IN  IF gate # 200
           THEN /\ aslast' = AsOp("delete", caller, asset_id, gate, "")
                /\ UNCHANGED <<assets, asset_events>>
           ELSE /\ assets' = out.assets
                /\ asset_events' = out.asset_events
                /\ aslast' = AsOp("delete", caller, asset_id,
                                  IF out.result = "none" THEN 404 ELSE 204, "")
    /\ UNCHANGED <<qr_codes, incidents, utcnow, qreq>>
    /\ UNCHANGED outsideAsset

\* The loop of bulk_delete_assets: delete_asset on each id in turn, each with
\* its own commit.
RECURSIVE BulkDelete(_, _, _, _, _)
BulkDelete(tbl, ev, ids, current_user_id, t) ==
    IF ids = <<>> THEN [assets |-> tbl, asset_events |-> ev]
    ELSE LET out == delete_asset(tbl, ev, Head(ids), current_user_id, t)
         IN  BulkDelete(out.assets, out.asset_events, Tail(ids), current_user_id, t)

\* POST /assets/bulk-delete
bulk_delete_assets(caller, ids) ==
    /\ caller \in Callers
    /\ Len(asset_events) + Len(ids) <= MaxEvents
    /\ LET gate == get_current_super_admin_user(caller)
           out == BulkDelete(assets, asset_events, ids, caller, utcnow)
       IN  IF gate # 200
           THEN /\ aslast' = AsOp("bulk_delete", caller, 0, gate, "")
                /\ UNCHANGED <<assets, asset_events>>
           ELSE /\ assets' = out.assets
                /\ asset_events' = out.asset_events
                /\ aslast' = AsOp("bulk_delete", caller, 0, 200, "")
    /\ UNCHANGED <<qr_codes, incidents, utcnow, qreq>>
    /\ UNCHANGED outsideAsset

\* The loop of bulk_update_assets: update_asset on each id with one body. An
\* exception is caught and recorded; a failed commit writes nothing.
RECURSIVE BulkUpdate(_, _, _, _, _)
BulkUpdate(tbl, ev, ids, body, current_user_id) ==
    IF ids = <<>> THEN [assets |-> tbl, asset_events |-> ev]
    ELSE LET out == update_asset(tbl, ev, Head(ids), body, current_user_id)
         IN  IF out.result = "error" THEN [assets |-> tbl, asset_events |-> ev]
             ELSE BulkUpdate(out.assets, out.asset_events, Tail(ids), body, current_user_id)

\* PATCH /assets/bulk-update: the body always sets status (null when the
\* request leaves it out) and never classroom_id.
bulk_update_assets(caller, ids, status) ==
    /\ caller \in Callers
    /\ Len(asset_events) + Len(ids) <= MaxEvents
    /\ LET gate == get_current_super_admin_user(caller)
           body == [classroom_id |-> Unset, status |-> Set(status)]
           out == BulkUpdate(assets, asset_events, ids, body, caller)
       IN  IF gate # 200
           THEN /\ aslast' = AsOp("bulk_update", caller, 0, gate, "")
                /\ UNCHANGED <<assets, asset_events>>
           ELSE /\ assets' = out.assets
                /\ asset_events' = out.asset_events
                /\ aslast' = AsOp("bulk_update", caller, 0, 200, "")
    /\ UNCHANGED <<qr_codes, incidents, utcnow, qreq>>
    /\ UNCHANGED outsideAsset

\* POST /assets/{asset_id}/qr-codes/, first half: the route and
\* regenerate_qr_code_for_asset look the asset up, then the asset's row of
\* qr_codes.
QrRead(q, asset_id) ==
    /\ qreq[q].pc = "new"
    /\ qreq' = [qreq EXCEPT ![q] =
         IF get_asset(assets, asset_id) = None
         THEN [pc |-> "done", asset |-> asset_id, existing |-> None, code |-> 404]
         ELSE [pc |-> "write", asset |-> asset_id, code |-> 0,
               existing |-> IF QrRowsOf(qr_codes, asset_id) = {} THEN None
                            ELSE Some(CHOOSE i \in QrRowsOf(qr_codes, asset_id) : TRUE)]]
    /\ UNCHANGED <<assets, qr_codes, asset_events, incidents, utcnow, aslast>>
    /\ UNCHANGED outsideAsset

\* Second half: the row read is rewritten in place, or a row is inserted; the
\* commit of an insert fails when the asset has got a row meanwhile.
QrCommit(q) ==
    /\ qreq[q].pc = "write"
    /\ LET a == qreq[q].asset
       IN  IF qreq[q].existing # None
           THEN /\ qr_codes' = [qr_codes EXCEPT ![qreq[q].existing[1]].qr_url = asset_url(a)]
                /\ qreq' = [qreq EXCEPT ![q].pc = "done", ![q].code = 201]
           ELSE IF qr_asset_id_free(qr_codes, a)
           THEN /\ qr_codes' = Append(qr_codes, [asset_id |-> a, qr_url |-> asset_url(a)])
                /\ qreq' = [qreq EXCEPT ![q].pc = "done", ![q].code = 201]
           ELSE /\ qreq' = [qreq EXCEPT ![q].pc = "done", ![q].code = 500]
                /\ UNCHANGED qr_codes
    /\ UNCHANGED <<assets, asset_events, incidents, utcnow, aslast>>
    /\ UNCHANGED outsideAsset

----------------------------------------------------------------------------
(* Incidents (services/incident_service.py, routers/incidents.py) *)

MaxIncidents == 1
MaxIncidentEvents == 5

IncidentIds == 1..MaxIncidents

\* models/incident.py 15-19.
IncidentStatusEnum == {"open", "in_progress", "resolved", "closed"}
Descriptions == {"d1", "d2"}

\* routers/incidents.py 13-17: every incident request acts as one fixed user.
get_current_user_id == 3

get_incident(tbl, incident_id) ==
    IF incident_id \in DOMAIN tbl /\ tbl[incident_id].present THEN Some(incident_id) ELSE None

\* datetime.utcnow() advances.
IncidentTick ==
    /\ utcnow < MaxTime
    /\ utcnow' = utcnow + 1
    /\ UNCHANGED <<assets, qr_codes, asset_events, incidents, qreq, aslast>>
    /\ UNCHANGED outsideAsset

\* POST /incidents/: the asset must be active; reported_by and the event's
\* user_id reference users.
create_new_incident(asset_id, description) ==
    /\ Len(incidents) < MaxIncidents
    /\ Len(asset_events) < MaxIncidentEvents
    /\ IF get_asset(assets, asset_id) = None
       THEN /\ aslast' = AsOp("create_incident", get_current_user_id, 0, 400, "")
            /\ UNCHANGED <<incidents, asset_events>>
       ELSE IF get_current_user_id \notin DOMAIN users
       THEN /\ aslast' = AsOp("create_incident", get_current_user_id, 0, 500, "")
            /\ UNCHANGED <<incidents, asset_events>>
       ELSE /\ incidents' = Append(incidents,
                [asset_id |-> asset_id, description |-> description, status |-> "open",
                 reported_by |-> get_current_user_id, resolved_at |-> None, present |-> TRUE])
            /\ asset_events' = log_asset_event(asset_events, asset_id, "incident_reported",
                                               get_current_user_id)
            /\ aslast' = AsOp("create_incident", get_current_user_id, Len(incidents) + 1, 201, "")
    /\ UNCHANGED <<assets, qr_codes, utcnow, qreq>>
    /\ UNCHANGED outsideAsset

\* incident_service.py 84-85: resolved_at after a valid status was set at time t.
resolved_at_never(row, new_status, t) == row.resolved_at
resolved_at_restamped(row, new_status, t) ==
    IF new_status \in {"resolved", "closed"} THEN Some(t) ELSE row.resolved_at
resolved_at_after(row, new_status, t) ==
    IF new_status \in {"resolved", "closed"} /\ row.resolved_at = None
    THEN Some(t) ELSE row.resolved_at

\* The keys of logged_changes that come from the body.
LoggedChanges(row, body) ==
    {k \in {"description", "status"} : body[k] # Unset /\ body[k] # Set(Some(row[k]))}

\* incident_service.update_incident on row at time t: the outcome and the row
\* that is committed.
update_incident(row, body, t) ==
    IF body.status # Unset /\ body.status \notin {Set(Some(s)) : s \in IncidentStatusEnum}
    THEN [result |-> "invalid", row |-> row]
    ELSE LET new_status == IF body.status = Unset THEN row.status ELSE body.status[2][1]
             stamped == IF body.status = Unset THEN row.resolved_at
                        ELSE resolved_at_after(row, new_status, t)
             logged_changes == LoggedChanges(row, body) \cup
                               (IF stamped # row.resolved_at THEN {"resolved_at"} ELSE {})
         IN  IF logged_changes = {} THEN [result |-> "same", row |-> row]
             ELSE IF body.description = Set(None) THEN [result |-> "error", row |-> row]
             ELSE [result |-> "ok",
                   row |-> [row EXCEPT !.status = new_status,
                                       !.resolved_at = stamped,
                                       !.description = IF "description" \in logged_changes
                                                       THEN body.description[2][1] ELSE @]]

\* PUT /incidents/{incident_id}
update_existing_incident(incident_id, body) ==
    /\ Len(asset_events) < MaxIncidentEvents
    /\ IF get_incident(incidents, incident_id) = None
       THEN /\ aslast' = AsOp("update_incident", get_current_user_id, incident_id, 404, "")
            /\ UNCHANGED <<incidents, asset_events>>
       ELSE LET row == incidents[incident_id]
                out == update_incident(row, body, utcnow)
            IN  /\ incidents' = [incidents EXCEPT ![incident_id] = out.row]
                /\ asset_events' = IF out.result = "ok"
                                   THEN log_asset_event(asset_events, row.asset_id,
                                                        "incident_updated", get_current_user_id)
                                   ELSE asset_events
                /\ aslast' = AsOp("update_incident", get_current_user_id, incident_id,
                                  CASE out.result = "invalid" -> 400
                                    [] out.result = "error" -> 500
                                    [] OTHER -> 200, row.status)
    /\ UNCHANGED <<assets, qr_codes, utcnow, qreq>>
    /\ UNCHANGED outsideAsset

\* DELETE /incidents/{incident_id}: the row is removed (present: it exists).
delete_single_incident(incident_id) ==
    /\ Len(asset_events) < MaxIncidentEvents
    /\ IF get_incident(incidents, incident_id) = None
       THEN /\ aslast' = AsOp("delete_incident", get_current_user_id, incident_id, 404, "")
            /\ UNCHANGED <<incidents, asset_events>>
       ELSE /\ incidents' = [incidents EXCEPT ![incident_id].present = FALSE]
            /\ asset_events' = log_asset_event(asset_events, incidents[incident_id].asset_id,
                                               "incident_deleted", get_current_user_id)
            /\ aslast' = AsOp("delete_incident", get_current_user_id, incident_id, 204, "")
    /\ UNCHANGED <<assets, qr_codes, utcnow, qreq>>
    /\ UNCHANGED outsideAsset

----------------------------------------------------------------------------
(* Asset categories (routers/assets.py 35-86, services/asset_service.py 15-45) *)

MaxCategories == 3
CategoryIds == 1..MaxCategories
CategoryNames == {"Chairs", "Desks"}
CategoryDescriptions == {"", "wooden"}

COp(o, t, name, code, detail) ==
    [op |-> o, target |-> t, name |-> name, code |-> code, detail |-> detail]
NoCOp == COp("none", 0, "", 0, "")

InitCatFrozen ==
    /\ asset_categories = <<>>
    /\ clast = NoCOp

\* asset_service.get_asset_category: the row with that id, if it is in the table.
get_asset_category(tbl, id) ==
    IF id \in 1..Len(tbl) /\ tbl[id].present THEN Some(id) ELSE None

\* asset_service.get_all_asset_categories: the rows of the table.
get_all_asset_categories(tbl) == {i \in 1..Len(tbl) : tbl[i].present}

\* models/asset.py 29: asset_categories.name is UNIQUE. A commit that leaves
\* a second row (other than self) with the name raises IntegrityError.
CategoryNameUnconstrained(tbl, name, self) == FALSE
CategoryNameTaken(tbl, name, self) ==
    \E i \in get_all_asset_categories(tbl) : i # self /\ tbl[i].name = name

\* POST /assets/categories/: the INSERT commits, or IntegrityError is turned
\* into ValueError (rollback) and that into a 400.
create_new_asset_category(name, description) ==
    /\ Len(asset_categories) < MaxCategories
    /\ IF CategoryNameTaken(asset_categories, name, 0)
       THEN /\ clast' = COp("create", 0, name, 400, "already exists")
            /\ UNCHANGED asset_categories
       ELSE /\ asset_categories' = Append(asset_categories,
                    [name |-> name, description |-> description, present |-> TRUE])
            /\ clast' = COp("create", Len(asset_categories) + 1, name, 201, "")
    /\ UNCHANGED outsideCat

\* PUT /assets/categories/{category_id}: 404 for a missing row; else name and
\* description are assigned and committed. The route catches nothing: a commit
\* refused by the UNIQUE constraint is answered 500 with nothing written.
update_asset_category(id, name, description) ==
    /\ IF get_asset_category(asset_categories, id) = None
       THEN /\ clast' = COp("update", id, name, 404, "Asset category not found")
            /\ UNCHANGED asset_categories
       ELSE IF CategoryNameTaken(asset_categories, name, id)
       THEN /\ clast' = COp("update", id, name, 500, "")
            /\ UNCHANGED asset_categories
       ELSE /\ asset_categories' = [asset_categories EXCEPT ![id].name = name,
                                                             ![id].description = description]
            /\ clast' = COp("update", id, name, 200, "")
    /\ UNCHANGED outsideCat

\* DELETE /assets/categories/{category_id}: 404 for a missing row; else the row
\* is removed from the table.
delete_asset_category(id) ==
    /\ IF get_asset_category(asset_categories, id) = None
       THEN /\ clast' = COp("delete", id, "", 404, "Asset category not found")
            /\ UNCHANGED asset_categories
       ELSE /\ asset_categories' = [asset_categories EXCEPT ![id].present = FALSE]
            /\ clast' = COp("delete", id, "", 204, "")
    /\ UNCHANGED outsideCat

----------------------------------------------------------------------------
(* Specification of invitation redemption *)

\* At most one user exists beforehand, in any status; invitations are unused
\* and expire after their creation (chk_invitation_dates).
InitUsers ==
    {<<>>} \cup {<<[email |-> e, status |-> s, deleted_at |-> None]>> : e \in Emails, s \in UserStatus}

\* The role catalogue as the seed comment of db/insert-role.py names it.
RoleNames == [i \in 1..4 |-> <<"Super Admin", "School Admin", "Teacher", "Inventory Manager">>[i]]

InitAuthFrozen ==
    /\ roles = RoleNames
    /\ outbox = {}
    /\ alast = [op |-> "none", caller |-> 0, target |-> 0, code |-> 0, school |-> ""]

InitSubFrozen ==
    /\ subs = <<>>
    /\ payments = <<>>
    /\ today = 0
    /\ last = NoOp
    /\ creq = [c \in ReqIds |-> NewCreate]

InitReg ==
    /\ users \in InitUsers
    /\ user_roles = {}
    /\ invitations \in [Tokens -> [email : Emails, role_id : {2, 3}, school_id : {"s1"},
                                   expires_at : 1..MaxTime, used_at : {None}]]
    /\ \A t \in Tokens : invitations[t].role_id = InvRole[t] /\ invitations[t].school_id = InvSchool[t]
    /\ now = 0
    /\ reg = [r \in ReqIds |-> [pc |-> "new", token |-> UnknownToken, payload_email |-> None,
                            user_id |-> 0, resp |-> NoResp]]
    /\ InitSubFrozen
    /\ InitCatFrozen
    /\ InitAuthFrozen
    /\ InitAssetFrozen

NextReg ==
    \/ \E r \in ReqIds, tok \in Tokens \cup {UnknownToken} : RegLookup(r, tok)
    \/ \E r \in ReqIds : RegCheckExisting(r)
    \/ \E r \in ReqIds : RegInsert(r)
    \/ \E r \in ReqIds : RegInsertFail(r)
    \/ \E r \in ReqIds : RegMark(r)
    \/ \E r \in ReqIds : RegMarkFail(r)
    \/ Tick

SpecReg == InitReg /\ [][NextReg]_vars

\* Registration requests whose JSON body also carries an email, equal to the
\* invitation's or not (None: the body has only the declared fields).
Payloads == {None} \cup {Some(e) : e \in Emails}

InitRegPayload ==
    /\ users = <<>>
    /\ user_roles = {}
    /\ \E e1, e2 \in Emails :
         invitations = [t \in Tokens |->
            [email |-> IF t = "t1" THEN e1 ELSE e2, role_id |-> InvRole[t],
             school_id |-> InvSchool[t], expires_at |-> MaxTime, used_at |-> None]]
    /\ now = 0
    /\ \E pe \in [ReqIds -> Payloads] :
         reg = [r \in ReqIds |-> [pc |-> "new", token |-> UnknownToken, payload_email |-> pe[r],
                                 user_id |-> 0, resp |-> NoResp]]
    /\ InitSubFrozen
    /\ InitCatFrozen
    /\ InitAuthFrozen
    /\ InitAssetFrozen

SpecRegPayload == InitRegPayload /\ [][NextReg]_vars

----------------------------------------------------------------------------
(* Specifications of the subscription lifecycle *)

InitRegFrozen ==
    /\ users = <<>>
    /\ user_roles = {}
    /\ invitations = [t \in Tokens |-> [email |-> "ana@school.test", role_id |-> InvRole[t],
                        school_id |-> InvSchool[t], expires_at |-> 1, used_at |-> None]]
    /\ now = 0
    /\ reg = [r \in ReqIds |-> [pc |-> "new", token |-> UnknownToken, payload_email |-> None,
                            user_id |-> 0, resp |-> NoResp]]

InitSub ==
    /\ subs = <<>>
    /\ payments = <<>>
    /\ today = 0
    /\ last = NoOp
    /\ creq = [c \in ReqIds |-> NewCreate]
    /\ InitRegFrozen
    /\ InitCatFrozen
    /\ InitAuthFrozen
    /\ InitAssetFrozen

\* A row whose status was set to past_due or canceled beforehand
\* (update_subscription_status, subscription_service.py 125-134).
SeedRows ==
    {[school_id |-> "s1", plan_id |-> p, start_date |-> 0,
      end_date |-> duration_days[p], status |-> st] :
        p \in PlanIds, st \in {"past_due", "canceled"}}

InitSubSeeded ==
    /\ subs \in {<<>>} \cup {<<row>> : row \in SeedRows}
    /\ payments = <<>>
    /\ today = 0
    /\ last = NoOp
    /\ creq = [c \in ReqIds |-> NewCreate]
    /\ InitRegFrozen
    /\ InitCatFrozen
    /\ InitAuthFrozen
    /\ InitAssetFrozen

CreateInputs == (SchoolIds \cup {UnknownSchool}) \X (PlanIds \cup {UnknownPlan})

\* The operations of the subscription lifecycle, and time.
NextSub ==
    \/ \E in \in CreateInputs : create_subscription(in[1], in[2])
    \/ \E sid \in SubIds : renew_subscription(sid)
    \/ \E sid \in SubIds, gid \in GatewayIds : handle_payment_webhook(sid, gid)
    \/ check_and_update_subscription_statuses
    \/ NextDay

\* From an empty table.
SpecSub == InitSub /\ [][NextSub]_vars

\* From a table that may hold a past_due or canceled subscription.
SpecSubSeeded == InitSubSeeded /\ [][NextSub]_vars

\* The running service: the HTTP routes of routers/subscriptions.py. No route
\* and no scheduler calls check_and_update_subscription_statuses. Days pass.
NextRun ==
    \/ \E in \in CreateInputs : create_subscription(in[1], in[2])
    \/ \E sid \in SubIds : renew_subscription(sid)
    \/ \E sid \in SubIds, gid \in GatewayIds : handle_payment_webhook(sid, gid)
    \/ NextDay

SpecRun == InitSub /\ [][NextRun]_vars /\ WF_vars(NextDay)

\* Creation requests interleaved with each other and with payments.
NextSubConc ==
    \/ \E c \in ReqIds, in \in CreateInputs : CreateCheck(c, in[1], in[2])
    \/ \E c \in ReqIds : CreateInsert(c)
    \/ \E sid \in SubIds, gid \in GatewayIds : handle_payment_webhook(sid, gid)
    \/ NextDay

SpecSubConc == InitSub /\ [][NextSubConc]_vars

\* The webhook route with every kind of body, between creations and days.
NextWebhook ==
    \/ \E in \in CreateInputs : create_subscription(in[1], in[2])
    \/ \E p \in WebhookPayloads : webhooks_payments(p)
    \/ NextDay

SpecWebhook == InitSubSeeded /\ [][NextWebhook]_vars

----------------------------------------------------------------------------
(* Specification of invitation creation *)

\* Two users. The first holds any set of super_admin and school_admin rows,
\* the second at most school_admin of s1. The roles table names its roles in
\* one of the two ways the code base writes them.
InviteRoleRows ==
    {[user_id |-> 1, role_id |-> r, school_id |-> sc] :
        r \in {SUPER_ADMIN, SCHOOL_ADMIN}, sc \in AuthSchools}

InitInvite ==
    /\ users = <<[email |-> "ana@school.test", status |-> "active", deleted_at |-> None],
                 [email |-> "bo@school.test", status |-> "active", deleted_at |-> None]>>
    /\ \E held \in SUBSET InviteRoleRows, other \in BOOLEAN :
         user_roles = held \cup
            (IF other THEN {[user_id |-> 2, role_id |-> SCHOOL_ADMIN, school_id |-> "s1"]}
             ELSE {})
    /\ roles \in {RoleNames, RoleNamesSnake}
    /\ invitations = [t \in {} |-> None]
    /\ now = 0
    /\ reg = [r \in ReqIds |-> [pc |-> "new", token |-> UnknownToken, payload_email |-> None,
                            user_id |-> 0, resp |-> NoResp]]
    /\ outbox = {}
    /\ alast = AOp("none", 0, 0, 0)
    /\ InitSubFrozen
    /\ InitCatFrozen
    /\ InitAssetFrozen

NextInvite ==
    \E caller \in 1..2, email \in Emails, rid \in {2, 3},
       outcome \in {"sent", "send_failed", "db_failed"} :
        create_new_invitation(caller, email, rid, "s1", outcome)

SpecInvite == InitInvite /\ [][NextInvite]_vars

----------------------------------------------------------------------------
(* Specification of the role gates and /admin-users *)

\* Two accounts in any status, deleted or not. The first holds any set of
\* super_admin and school_admin rows, the second is a super admin or holds
\* nothing.
InitAdmin ==
    /\ \E s1, s2 \in UserStatus, d1, d2 \in {None, Some(0)} :
         users = <<[email |-> "ana@school.test", status |-> s1, deleted_at |-> d1],
                   [email |-> "bo@school.test", status |-> s2, deleted_at |-> d2]>>
    /\ \E held \in SUBSET InviteRoleRows, other \in BOOLEAN :
         user_roles = held \cup
            (IF other THEN {[user_id |-> 2, role_id |-> SUPER_ADMIN, school_id |-> "s1"]}
             ELSE {})
    /\ roles = RoleNames
    /\ invitations = [t \in {} |-> None]
    /\ now = 0
    /\ reg = [r \in ReqIds |-> [pc |-> "new", token |-> UnknownToken, payload_email |-> None,
                            user_id |-> 0, resp |-> NoResp]]
    /\ outbox = {}
    /\ alast = AOp("none", 0, 0, 0)
    /\ InitSubFrozen
    /\ InitCatFrozen
    /\ InitAssetFrozen

AdminTargets == 1..3

NextAdmin ==
    \/ \E caller \in 1..2 : list_all_users(caller)
    \/ \E caller \in 1..2, target \in AdminTargets : get_user_details(caller, target)
    \/ \E caller \in 1..2, target \in AdminTargets,
          email \in {None} \cup {Some(e) : e \in Emails},
          st \in {None} \cup {Some(x) : x \in UserStatus} :
            update_user_details(caller, target, email, st)
    \/ \E caller \in 1..2, target \in AdminTargets : activate_user_account(caller, target)
    \/ \E caller \in 1..2, target \in AdminTargets : suspend_user_account(caller, target)
    \/ \E caller \in 1..2, target \in AdminTargets : set_user_pending(caller, target)
    \/ \E caller \in 1..2, target \in AdminTargets : delete_user_account(caller, target)
    \/ \E caller \in 1..2, sc \in AuthSchools : school_admin_gate(caller, sc)

SpecAdmin == InitAdmin /\ [][NextAdmin]_vars

----------------------------------------------------------------------------
(* Specifications of assets and QR codes *)

\* Two active accounts; the first is a super admin, the second may be one.
InitAssetUsers ==
    /\ users = <<[email |-> "ana@school.test", status |-> "active", deleted_at |-> None],
                 [email |-> "bo@school.test", status |-> "active", deleted_at |-> None]>>
    /\ \E other \in BOOLEAN :
         user_roles = {[user_id |-> 1, role_id |-> SUPER_ADMIN, school_id |-> "s1"]} \cup
            (IF other THEN {[user_id |-> 2, role_id |-> SUPER_ADMIN, school_id |-> "s1"]}
             ELSE {})
    /\ roles = RoleNames
    /\ invitations = [t \in {} |-> None]
    /\ now = 0
    /\ reg = [r \in ReqIds |-> [pc |-> "new", token |-> UnknownToken, payload_email |-> None,
                            user_id |-> 0, resp |-> NoResp]]
    /\ outbox = {}
    /\ alast = AOp("none", 0, 0, 0)
    /\ InitSubFrozen
    /\ InitCatFrozen

\* An empty assets table, or one asset row that has no row in qr_codes yet:
\* the case regenerate_qr_code_for_asset inserts for (qr_service.py 125-131)
\* and GET /assets/{asset_id}/qr-codes/ answers 404 for (routers/qr_codes.py 60-62).
InitQr ==
    /\ InitAssetUsers
    /\ assets \in {<<>>, <<[classroom_id |-> "c1", status |-> "available",
                            created_by_id |-> 1, deleted_at |-> None]>>}
    /\ qr_codes = <<>>
    /\ asset_events = <<>>
    /\ incidents = <<>>
    /\ utcnow = 0
    /\ qreq = [q \in ReqIds |-> NewQr]
    /\ aslast = NoAsOp

\* QR requests, interleaved with the first user's creations and deletions.
NextQr ==
    \/ \E c \in {"c1", UnknownClassroom} : create_new_asset(1, c)
    \/ \E q \in ReqIds, a \in AssetIds : QrRead(q, a)
    \/ \E q \in ReqIds : QrCommit(q)
    \/ \E a \in AssetIds : delete_single_asset(1, a)

SpecQr == InitQr /\ [][NextQr]_vars

\* The asset routes that write, from empty tables.
InitAsset ==
    /\ InitAssetUsers
    /\ assets = <<>>
    /\ qr_codes = <<>>
    /\ asset_events = <<>>
    /\ incidents = <<>>
    /\ utcnow = 0
    /\ qreq = [q \in ReqIds |-> NewQr]
    /\ aslast = NoAsOp

\* Lists of asset ids a bulk request names.
BulkIds == {<<a>> : a \in AssetIds} \cup {<<a, b>> : a, b \in AssetIds}

UpdateBodies ==
    [classroom_id : {Unset} \cup {Set(Some(c)) : c \in Classrooms},
     status : {Unset, Set(None), Set(Some("available")), Set(Some("in_repair"))}]

NextAsset ==
    \/ \E caller \in 1..2, c \in Classrooms \cup {UnknownClassroom} : create_new_asset(caller, c)
    \/ \E caller \in 1..2, a \in AssetIds, body \in UpdateBodies :
          update_existing_asset(caller, a, body)
    \/ \E caller \in 1..2, a \in AssetIds : delete_single_asset(caller, a)
    \/ \E caller \in 1..2, ids \in BulkIds : bulk_delete_assets(caller, ids)
    \/ \E caller \in 1..2, ids \in BulkIds, st \in {None, Some("in_repair")} :
          bulk_update_assets(caller, ids, st)

SpecAsset == InitAsset /\ [][NextAsset]_vars

----------------------------------------------------------------------------
(* Specification of incidents *)

\* One asset as create_new_asset leaves it and no incident. The fixed user of
\* the incident routes has a row in users, or has none.
InitIncident ==
    /\ \E dummy \in BOOLEAN :
         users = <<[email |-> "ana@school.test", status |-> "active", deleted_at |-> None],
                   [email |-> "bo@school.test", status |-> "active", deleted_at |-> None]>>
                 \o (IF dummy THEN <<[email |-> "test@school.test", status |-> "active",
                                      deleted_at |-> None]>>
                     ELSE <<>>)
    /\ user_roles = {[user_id |-> 1, role_id |-> SUPER_ADMIN, school_id |-> "s1"]}
    /\ roles = RoleNames
    /\ invitations = [t \in {} |-> None]
    /\ now = 0
    /\ reg = [r \in ReqIds |-> [pc |-> "new", token |-> UnknownToken, payload_email |-> None,
                            user_id |-> 0, resp |-> NoResp]]
    /\ outbox = {}
    /\ alast = AOp("none", 0, 0, 0)
    /\ InitSubFrozen
    /\ InitCatFrozen
    /\ assets = <<[classroom_id |-> "c1", status |-> "available",
                   created_by_id |-> 1, deleted_at |-> None]>>
    /\ qr_codes = <<[asset_id |-> 1, qr_url |-> asset_url(1)]>>
    /\ asset_events = <<[asset_id |-> 1, user_id |-> 1, event_type |-> "asset_created"]>>
    /\ incidents = <<>>
    /\ utcnow = 0
    /\ qreq = [q \in ReqIds |-> NewQr]
    /\ aslast = NoAsOp

IncidentBodies ==
    [description : {Unset, Set(None)} \cup {Set(Some(d)) : d \in Descriptions},
     status : {Unset, Set(None), Set(Some("bogus"))}
              \cup {Set(Some(s)) : s \in IncidentStatusEnum}]

NextIncident ==
    \/ \E a \in AssetIds : create_new_incident(a, "d1")
    \/ \E i \in IncidentIds, body \in IncidentBodies : update_existing_incident(i, body)
    \/ \E i \in IncidentIds : delete_single_incident(i)
    \/ IncidentTick

SpecIncident == InitIncident /\ [][NextIncident]_vars

----------------------------------------------------------------------------
(* Specification of asset categories *)

InitCategory ==
    /\ asset_categories = <<>>
    /\ clast = NoCOp
    /\ InitRegFrozen
    /\ InitSubFrozen
    /\ InitAuthFrozen
    /\ InitAssetFrozen

NextCategory ==
    \/ \E name \in CategoryNames, d \in CategoryDescriptions :
            create_new_asset_category(name, d)
    \/ \E id \in CategoryIds, name \in CategoryNames, d \in CategoryDescriptions :
            update_asset_category(id, name, d)
    \/ \E id \in CategoryIds : delete_asset_category(id)

SpecCategory == InitCategory /\ [][NextCategory]_vars

----------------------------------------------------------------------------
(* Specification of protected operations while accounts change status *)

\* Two active super admins; each can suspend, reset, reactivate or delete the
\* other's account, or its own, between the calls to the protected routes.
InitSuspended ==
    /\ users = <<[email |-> "ana@school.test", status |-> "active", deleted_at |-> None],
                 [email |-> "bo@school.test", status |-> "active", deleted_at |-> None]>>
    /\ user_roles = {[user_id |-> u, role_id |-> SUPER_ADMIN, school_id |-> "s1"] : u \in 1..2}
    /\ invitations = [t \in {} |-> None]
    /\ now = 0
    /\ reg = [r \in ReqIds |-> [pc |-> "new", token |-> UnknownToken, payload_email |-> None,
                            user_id |-> 0, resp |-> NoResp]]
    /\ InitAuthFrozen
    /\ InitSubFrozen
    /\ InitCatFrozen
    /\ InitAssetFrozen

NextSuspended ==
    \/ \E caller \in 1..2 : list_all_users(caller)
    \/ \E caller \in 1..2, target \in 1..2 : activate_user_account(caller, target)
    \/ \E caller \in 1..2, target \in 1..2 : suspend_user_account(caller, target)
    \/ \E caller \in 1..2, target \in 1..2 : set_user_pending(caller, target)
    \/ \E caller \in 1..2, target \in 1..2 : delete_user_account(caller, target)
    \/ \E caller \in 1..2, email \in Emails :
            create_new_invitation(caller, email, 2, "s1", "sent")
    \/ \E caller \in 1..2 : create_new_asset(caller, "c1")
    \/ \E caller \in 1..2, a \in AssetIds : delete_single_asset(caller, a)

SpecSuspended == InitSuspended /\ [][NextSuspended]_vars

----------------------------------------------------------------------------
(* Claims on invitation redemption (SpecReg) *)

\* The users committed by requests that carried token t.
UsersFrom(t) ==
    {reg[r].user_id : r \in {q \in ReqIds : reg[q].token = t /\ reg[q].user_id # 0}}

RolesOf(u) == {x \in user_roles : x.user_id = u}

Quiescent == \A r \in ReqIds : reg[r].pc \in {"new", "done"}

AllWritten(t) ==
    \E u \in UsersFrom(t) :
        /\ UsersFrom(t) = {u}
        /\ users[u].status = "active"
        /\ RolesOf(u) = {[user_id |-> u, role_id |-> invitations[t].role_id,
                          school_id |-> invitations[t].school_id]}
        /\ invitations[t].used_at # None

NoneWritten(t) == UsersFrom(t) = {} /\ invitations[t].used_at = None

\* C1: invitation registration is all-or-nothing. Whenever no request is in
\* flight (each has answered, with success or with a failure at some step),
\* for every invitation either the active user, its one UserRole row and
\* used_at are all persisted, or none of them is.
C1_AllOrNothing == Quiescent => \A t \in Tokens : AllWritten(t) \/ NoneWritten(t)

\* C2: a registration request whose invitation is used (used_at set) or
\* expired (expires_at not after now) fails with a 400 and leaves the users
\* and the UserRole rows unchanged.
C2_UsedOrExpiredRejected ==
    [][\A r \in ReqIds, tok \in Tokens :
         (/\ RegLookup(r, tok)
          /\ (invitations[tok].used_at # None \/ invitations[tok].expires_at <= now))
         => /\ reg'[r].pc = "done"
            /\ reg'[r].resp.code = 400
            /\ reg'[r].user_id = 0
            /\ users' = users
            /\ user_roles' = user_roles]_vars

\* C2 witness: a request was rejected as invalid for an invitation that had
\* been used, and nothing was written for it.
C2_Witness ==
    \E r \in ReqIds :
        /\ reg[r].resp = Resp(400, "Invalid or expired invitation token.")
        /\ reg[r].token \in Tokens
        /\ invitations[reg[r].token].used_at # None
        /\ reg[r].user_id = 0

Succeeded(t) == {r \in ReqIds : reg[r].token = t /\ reg[r].resp.code = 201}

\* C3: an invitation is single-use. Across every interleaving of registration
\* requests, at most one user is created from one invitation and at most one
\* request per token succeeds; a success implies used_at is set; used_at once
\* set never changes; a request that arrives after a success is rejected.
C3_SingleUse ==
    /\ [](\A t \in Tokens :
            /\ Cardinality(UsersFrom(t)) <= 1
            /\ Cardinality(Succeeded(t)) <= 1
            /\ (Succeeded(t) # {} => invitations[t].used_at # None))
    /\ [][\A t \in Tokens :
            /\ (invitations[t].used_at # None
                    => invitations'[t].used_at = invitations[t].used_at)
            /\ \A r \in ReqIds :
                 (RegLookup(r, t) /\ Succeeded(t) # {})
                    => (reg'[r].pc = "done" /\ reg'[r].resp.code = 400)]_vars

\* C3 witness: two requests with the same token ran concurrently (both passed
\* the validity and existing-user checks); one succeeded, the other lost at
\* the INSERT and wrote nothing.
C3_Witness ==
    \E r1, r2 \in ReqIds :
        /\ r1 # r2
        /\ reg[r1].token = reg[r2].token
        /\ reg[r1].resp.code = 201
        /\ reg[r2].pc = "done" /\ reg[r2].resp.code = 500 /\ reg[r2].user_id = 0
        /\ Cardinality(UsersFrom(reg[r1].token)) = 1

\* The request carried an email other than the one its invitation is bound to.
Mismatching(r) ==
    /\ reg[r].token \in Tokens
    /\ reg[r].payload_email # None
    /\ reg[r].payload_email[1] # invitations[reg[r].token].email

MismatchError == Resp(400, "Registration email does not match invitation email.")

C15_ExistingUserRejected ==
    [][\A r \in ReqIds :
         (/\ RegCheckExisting(r)
          /\ \E u \in 1..Len(users) :
                /\ users[u].email = invitations[reg[r].token].email
                /\ users[u].status \in {"active", "suspended"})
         => /\ reg'[r].pc = "done"
            /\ reg'[r].resp =
                 Resp(400, "User with this email already exists and is active/suspended.")
            /\ reg'[r].user_id = 0
            /\ users' = users
            /\ user_roles' = user_roles
            /\ invitations' = invitations]_vars

\* C15 witness: a request with a valid invitation was rejected because a
\* suspended user has the invitation's email; the invitation is still unused
\* and unexpired.
C15_Witness ==
    \E r \in ReqIds :
        /\ reg[r].resp = Resp(400, "User with this email already exists and is active/suspended.")
        /\ is_valid(invitations[reg[r].token], now)
        /\ \E u \in 1..Len(users) :
              /\ users[u].email = invitations[reg[r].token].email
              /\ users[u].status = "suspended"
        /\ user_roles = {}

----------------------------------------------------------------------------
(* Claims on the subscription lifecycle *)

Pairs == SchoolIds \X PlanIds
RowsOfPair(pr, sts) ==
    {i \in Rows : subs[i].school_id = pr[1] /\ subs[i].plan_id = pr[2] /\ subs[i].status \in sts}
Max(a, b) == IF a >= b THEN a ELSE b

\* C4 (SpecSub): create_subscription for a pair that has an active or past_due
\* subscription fails with a domain error and creates no row; for a pair whose
\* only open subscription is inactive it returns that row and creates no row.
C4_CreateDuplicatePolicy ==
    [][\A pr \in Pairs :
         create_subscription(pr[1], pr[2]) =>
            IF RowsOfPair(pr, {"active", "past_due"}) # {}
            THEN last'.result = "400 duplicate" /\ subs' = subs
            ELSE RowsOfPair(pr, {"inactive"}) # {}
                    => /\ last'.result = "201 existing"
                       /\ last'.sub \in RowsOfPair(pr, {"inactive"})
                       /\ subs' = subs]_vars

ClaimedTransitions ==
    {<<"inactive", "active">>, <<"active", "past_due">>, <<"active", "expired">>,
     <<"active", "canceled">>, <<"past_due", "expired">>, <<"past_due", "active">>,
     <<"active", "active">>}

\* C5 as claimed (SpecSub): a subscription's status changes only along the
\* claimed transitions; expired and canceled are never left.
C5_ClaimedTransitionsOnly ==
    [][\A i \in Rows :
         \/ subs'[i].status = subs[i].status
         \/ <<subs[i].status, subs'[i].status>> \in ClaimedTransitions]_vars

\* C5 as amended (SpecSub): the status changes only along the claimed
\* transitions or, on a payment or a manual renewal, from expired or canceled
\* back to active; rows are never removed.
C5_TransitionsWithReactivation ==
    [][/\ Len(subs') >= Len(subs)
       /\ \A i \in Rows :
            \/ subs'[i].status = subs[i].status
            \/ <<subs[i].status, subs'[i].status>> \in ClaimedTransitions
            \/ /\ subs[i].status \in {"expired", "canceled"}
               /\ subs'[i].status = "active"
               /\ last'.op \in {"webhook", "renew"}]_vars

\* C5 witness: an expired subscription was made active again by a payment.
C5_Witness ==
    /\ last.op = "webhook"
    /\ last.prev_status = "expired"
    /\ last.sub \in Rows
    /\ subs[last.sub].status = "active"

\* C6 (SpecSubSeeded): a successful payment event for an inactive subscription makes
\* it active from today until today + plan.duration_days and records one
\* succeeded Payment for it.
C6_FirstActivation ==
    [][\A sid \in SubIds, gid \in GatewayIds :
         (handle_payment_webhook(sid, gid) /\ sid \in Rows /\ subs[sid].status = "inactive")
         => /\ subs'[sid].status = "active"
            /\ subs'[sid].start_date = today
            /\ subs'[sid].end_date = today + duration_days[subs[sid].plan_id]
            /\ \A j \in Rows \ {sid} : subs'[j] = subs[j]
            /\ payments' = Append(payments, [subscription_id |-> sid,
                                gateway_payment_id |-> gid, status |-> "succeeded"])]_vars

\* C6 witness: an inactive subscription created on an earlier day was paid.
C6_Witness ==
    /\ last.op = "webhook"
    /\ last.prev_status = "inactive"
    /\ last.sub \in Rows
    /\ today > 0
    /\ subs[last.sub].status = "active"
    /\ subs[last.sub].start_date = today
    /\ \E k \in 1..Len(payments) : payments[k].subscription_id = last.sub

\* C7 as claimed (SpecSub): a payment for a subscription that is not inactive
\* makes it active with end_date = max(today, previous end_date) + duration.
C7_RenewFromLaterOfTodayAndEnd ==
    [][\A sid \in SubIds, gid \in GatewayIds :
         (handle_payment_webhook(sid, gid) /\ sid \in Rows /\ subs[sid].status # "inactive")
         => /\ subs'[sid].status = "active"
            /\ subs'[sid].end_date =
                 Max(today, subs[sid].end_date) + duration_days[subs[sid].plan_id]]_vars

\* C7 as amended (SpecSub): the renewed period starts today when the previous
\* end_date is before today, and on the day after the previous end_date
\* otherwise; end_date is that start plus the plan's duration.
C7_RenewFromDayAfterEnd ==
    [][\A sid \in SubIds, gid \in GatewayIds :
         (handle_payment_webhook(sid, gid) /\ sid \in Rows /\ subs[sid].status # "inactive")
         => LET start == IF subs[sid].end_date < today THEN today
                         ELSE subs[sid].end_date + 1
            IN  /\ subs'[sid].status = "active"
                /\ subs'[sid].start_date = start
                /\ subs'[sid].end_date = start + duration_days[subs[sid].plan_id]]_vars

\* C7 witness: a payment renewed a subscription whose period had not ended;
\* the new period starts after today.
C7_Witness ==
    /\ last.op = "webhook"
    /\ last.prev_status \in {"active", "past_due"}
    /\ last.sub \in Rows
    /\ subs[last.sub].status = "active"
    /\ subs[last.sub].start_date > today

\* C8 (SpecSubSeeded): the sweep sets to expired exactly the subscriptions with
\* end_date < today and status active or past_due, returns their number, and
\* leaves every other subscription unchanged.
C8_SweepExpiresExactly ==
    [][check_and_update_subscription_statuses =>
         LET due == {i \in Rows : /\ subs[i].end_date < today
                                  /\ subs[i].status \in {"active", "past_due"}}
         IN  /\ Len(subs') = Len(subs)
             /\ \A i \in Rows :
                  subs'[i] = IF i \in due THEN [subs[i] EXCEPT !.status = "expired"]
                             ELSE subs[i]
             /\ last'.n = Cardinality(due)]_vars

\* C8 witness: a sweep expired a subscription and left alone one that is not
\* active or past_due although its end_date has passed.
C8_Witness ==
    /\ last.op = "sweep"
    /\ last.n >= 1
    /\ \E i, j \in Rows :
        /\ subs[i].status = "expired" /\ subs[i].end_date < today
        /\ subs[j].status \in {"inactive", "canceled"} /\ subs[j].end_date < today

\* C9 (SpecRun): every subscription that is active or past_due with its
\* end_date passed eventually is expired (or is paid and runs again).
C9_EventuallyExpired ==
    \A i \in SubIds :
        (i \in Rows /\ subs[i].status \in {"active", "past_due"} /\ subs[i].end_date < today)
        ~> (i \in Rows /\ (subs[i].status = "expired" \/ subs[i].end_date >= today))

\* C10 (SpecSubConc): two concurrent creation requests for the same
\* (school, plan) never both insert a row.
C10_RaceLeavesOneRow ==
    \A c1, c2 \in ReqIds :
        (/\ c1 # c2
         /\ creq[c1].result = "201 created"
         /\ creq[c2].result = "201 created")
        => <<creq[c1].school, creq[c1].plan>> # <<creq[c2].school, creq[c2].plan>>

----------------------------------------------------------------------------
(* Claims on role-based authorization *)

HoldsSuperAdmin(u) == \E x \in user_roles : x.user_id = u /\ x.role_id = SUPER_ADMIN

AdminOps == {"list", "get", "update", "activate", "suspend", "set-pending", "delete"}

\* C12 (SpecAdmin): every /admin-users operation invoked by an authenticated
\* caller (an active, not deleted account) that holds no super_admin row is
\* answered 403 and leaves every user row unchanged.
C12_AdminUsersNeedSuperAdmin ==
    [][(/\ alast'.op \in AdminOps
        /\ get_current_user(alast'.caller) = 200
        /\ ~HoldsSuperAdmin(alast'.caller))
       => /\ alast'.code = 403
          /\ users' = users]_vars

\* C12 witness: a school admin asked to delete an existing active user and
\* was answered 403; the user is still active and not deleted.
C12_Witness ==
    /\ alast.op = "delete"
    /\ alast.code = 403
    /\ get_current_user(alast.caller) = 200
    /\ check_user_role(alast.caller, SCHOOL_ADMIN, None)
    /\ ~HoldsSuperAdmin(alast.caller)
    /\ alast.target \in 1..Len(users)
    /\ users[alast.target].status = "active"
    /\ users[alast.target].deleted_at = None

\* C13 (SpecAdmin): an authenticated super admin passes the school-admin gate
\* for every school; a caller who is neither super admin nor school admin of
\* that school does not pass.
C13_SuperAdminPassesSchoolGate ==
    [][(alast'.op = "school_gate" /\ get_current_user(alast'.caller) = 200)
       => /\ (HoldsSuperAdmin(alast'.caller) => alast'.code = 200)
          /\ ((/\ ~HoldsSuperAdmin(alast'.caller)
                /\ ~check_user_role(alast'.caller, SCHOOL_ADMIN, Some(alast'.school)))
               => alast'.code # 200)]_vars

----------------------------------------------------------------------------
(* Claims on QR codes (SpecQr) *)

AtMostOneQr == \A a \in DOMAIN assets : Cardinality(QrRowsOf(qr_codes, a)) <= 1

\* A request that read a row of qr_codes and commits leaves the table with
\* the same rows, that row still the asset's, and answers 201.
RegenerateInPlace ==
    \A q \in ReqIds :
        (qreq[q].pc = "write" /\ qreq'[q].pc = "done" /\ qreq[q].existing # None)
        => /\ Len(qr_codes') = Len(qr_codes)
           /\ qr_codes'[qreq[q].existing[1]].asset_id = qreq[q].asset
           /\ qreq'[q].code = 201

\* C16: under every interleaving of asset creations and QR generate or
\* regenerate requests each asset has at most one row of qr_codes, and a
\* regeneration that found a row rewrites that row and adds none.
C16_OneQrPerAsset == [](AtMostOneQr) /\ [][RegenerateInPlace]_vars

\* Two requests raced to insert the first row of one asset: one was answered
\* 201, the other 500, and a third regeneration would find the single row.
C16_Witness ==
    \E q1, q2 \in ReqIds :
        /\ q1 # q2
        /\ qreq[q1].asset = qreq[q2].asset
        /\ qreq[q1].code = 201 /\ qreq[q1].existing = None
        /\ qreq[q2].code = 500
        /\ Cardinality(QrRowsOf(qr_codes, qreq[q1].asset)) = 1

----------------------------------------------------------------------------
(* Claims on assets and their audit log (SpecAsset) *)

\* asset a was soft-deleted by the last request.
JustDeleted(a) == aslast.op = "delete" /\ aslast.code = 204 /\ aslast.target = a

MarkedDeleted(a) == assets[a].deleted_at # None /\ assets[a].status = "decommissioned"

HiddenFromAssetService(a) ==
    /\ get_asset(assets, a) = None
    /\ a \notin get_all_assets
    /\ \A c \in Classrooms : a \notin get_assets_by_classroom(c) /\ a \notin classroom_inventory(c)

HistoryReturned(a) ==
    \E i \in DOMAIN get_asset_events(a) : get_asset_events(a)[i].event_type = "asset_deleted"

\* C17: after delete_asset the asset has deleted_at set and status
\* decommissioned, no lookup or listing of assets returns it (get_asset,
\* get_all_assets, get_assets_by_classroom, the classroom inventory, the
\* dashboard's assets), and get_asset_events still returns its history.
C17_DeletedAssetHiddenEverywhere ==
    \A a \in DOMAIN assets :
        JustDeleted(a) => /\ MarkedDeleted(a)
                          /\ HiddenFromAssetService(a)
                          /\ a \notin dashboard_assets
                          /\ HistoryReturned(a)

\* The positions of the events a step adds.
AddedEvents == (Len(asset_events) + 1)..Len(asset_events')

\* Every event of before is still there, unchanged and at its place.
EventsAppendOnly ==
    /\ Len(asset_events') >= Len(asset_events)
    /\ SubSeq(asset_events', 1, Len(asset_events)) = asset_events

\* An asset row that a step inserts or changes in any field (a soft-delete
\* included) gets exactly one new event, carrying the id of the caller.
EveryChangeLogged ==
    \A a \in DOMAIN assets' :
        (a \notin DOMAIN assets \/ assets'[a] # assets[a])
        => /\ Cardinality({i \in AddedEvents : asset_events'[i].asset_id = a}) = 1
           /\ \A i \in AddedEvents :
                asset_events'[i].asset_id = a => asset_events'[i].user_id = aslast'.user

\* C18: every asset creation, every update that changes a field and every
\* soft-delete appends exactly one AssetEvent with the acting user's id, and
\* no step changes or removes an event already written.
C18_AuditLogCompleteAppendOnly == [][EventsAppendOnly /\ EveryChangeLogged]_vars

\* One asset was created, updated and soft-deleted: three events in that order.
C18_Witness ==
    /\ Len(asset_events) = 3
    /\ \A i \in 1..3 : asset_events[i].asset_id = 1 /\ asset_events[i].user_id = aslast.user
    /\ asset_events[1].event_type = "asset_created"
    /\ asset_events[2].event_type = "asset_updated"
    /\ asset_events[3].event_type = "asset_deleted"
    /\ aslast.code = 204

----------------------------------------------------------------------------
(* Claims on incidents (SpecIncident) *)

Resolved == {"resolved", "closed"}

\* A step keeps a resolved_at that is set, and sets it to the current time
\* when an incident without one becomes resolved or closed.
ResolvedAtStampedOnce ==
    \A i \in DOMAIN incidents :
        (incidents[i].present /\ incidents'[i].present)
        => /\ incidents[i].resolved_at # None
                => incidents'[i].resolved_at = incidents[i].resolved_at
           /\ (incidents[i].resolved_at = None /\ incidents[i].status \notin Resolved
               /\ incidents'[i].status \in Resolved)
                => incidents'[i].resolved_at = Some(utcnow)

\* C19: resolved_at is stamped when an incident first becomes resolved or
\* closed and no later status update changes it, a reopening followed by a
\* second resolution included.
C19_ResolvedAtStampedOnce == [][ResolvedAtStampedOnce]_vars

\* An incident resolved earlier was reopened and has just been resolved or
\* closed again at a later time; it still carries the first stamp.
C19_Witness ==
    \E i \in DOMAIN incidents :
        /\ aslast.op = "update_incident" /\ aslast.code = 200 /\ aslast.target = i
        /\ aslast.note \in {"open", "in_progress"}
        /\ incidents[i].status \in Resolved
        /\ incidents[i].resolved_at # None
        /\ incidents[i].resolved_at[1] < utcnow

----------------------------------------------------------------------------
(* Claims on the payment webhook (SpecWebhook) *)

PaymentSucceeded(p) == p.type = "payment_intent.succeeded"

\* The body is a JSON object with every required field present and valid.
WellFormed(p) ==
    /\ p.shape = "object" /\ p.data = "object"
    /\ p.id # None /\ p.amount_received = "number" /\ p.subscription_id = "uuid"

Answered200 == {"200 processed", "200 issue logged", "200 not handled"}
Answered4xx == {"400 invalid json", "400 missing fields", "400 invalid format"}

\* A well-formed payment_intent.succeeded event is answered 200; when its
\* subscription does not exist nothing is written.
WellFormedAcknowledged ==
    \A p \in WebhookPayloads :
        (PaymentSucceeded(p) /\ WellFormed(p) /\ webhooks_payments(p))
        => /\ last'.result \in Answered200
           /\ p.sub \notin Rows => UNCHANGED <<subs, payments>>

\* A payment_intent.succeeded body that is not well-formed is answered 4xx and
\* nothing is written; nothing else is answered 4xx.
OnlyBadBodiesRejected ==
    \A p \in WebhookPayloads :
        webhooks_payments(p)
        => /\ (PaymentSucceeded(p) /\ ~WellFormed(p))
                => (last'.result \in Answered4xx /\ UNCHANGED <<subs, payments>>)
           /\ last'.result \in Answered4xx => (PaymentSucceeded(p) /\ ~WellFormed(p))

\* C20: the webhook answers 200 for every well-formed payment_intent.succeeded
\* event, also when the subscription is unknown (then no payment is recorded
\* and no subscription changes); malformed JSON and missing or invalid
\* required fields, and only they, are rejected with a 4xx, without any
\* change of state.
C20_WebhookAcknowledges == [][WellFormedAcknowledged /\ OnlyBadBodiesRejected]_vars

----------------------------------------------------------------------------
(* Claims on invitation emails (SpecInvite) *)

\* The caller passes the role check of POST /invitations/.
PassesInviteCheck(u) ==
    /\ RolesNamed("Super Admin") # {}
    /\ Cardinality(HeldRows(u, CHOOSE i \in RolesNamed("Super Admin") : TRUE)) = 1

\* A creation whose email could not be delivered is answered 201, leaves a new
\* invitation for the address, sends nothing and keeps every earlier row.
EmailFailureKeepsInvitation ==
    \A caller \in 1..2, email \in Emails, rid \in {2, 3} :
        (PassesInviteCheck(caller)
         /\ create_new_invitation(caller, email, rid, "s1", "send_failed"))
        => /\ alast'.code = 201
           /\ \E tok \in DOMAIN invitations' \ DOMAIN invitations :
                invitations'[tok].email = email /\ invitations'[tok].used_at = None
           /\ \A t \in DOMAIN invitations : invitations'[t] = invitations[t]
           /\ outbox' = outbox

\* C21: when the email of a new invitation cannot be delivered the creation
\* still succeeds and returns the invitation, and the committed invitation
\* row stays in the table.
C21_EmailFailureKeepsInvitation == [][EmailFailureKeepsInvitation]_vars

\* Two invitations exist and only one email left: one delivery failed and its
\* invitation is still there, the request having been answered 201.
C21_Witness ==
    /\ Cardinality(DOMAIN invitations) = 2
    /\ Cardinality(outbox) = 1
    /\ \E t \in DOMAIN invitations : \A m \in outbox : m.token # t
    /\ alast.op = "invite" /\ alast.code = 201

----------------------------------------------------------------------------
(* Further claims on the subscription lifecycle *)

\* A creation for a known school and plan whose pair has no active, inactive
\* or past_due row adds one row: inactive, starting today, lasting the plan's
\* duration; the rows of before stay as they were.
CreatesOneInactive ==
    \A sc \in SchoolIds, pl \in PlanIds :
        (ExistingSubs(sc, pl) = {} /\ create_subscription(sc, pl))
        => /\ Len(subs') = Len(subs) + 1
           /\ SubSeq(subs', 1, Len(subs)) = subs
           /\ subs'[Len(subs')] = [school_id |-> sc, plan_id |-> pl, start_date |-> today,
                                   end_date |-> today + duration_days[pl],
                                   status |-> "inactive"]
           /\ last'.result = "201 created"

\* C22 (SpecSubSeeded): create_subscription for an existing school and plan
\* whose pair has no active, inactive or past_due subscription creates exactly
\* one subscription, with status inactive, start_date today and end_date
\* start_date + plan.duration_days.
C22_CreatesOneInactive == [][CreatesOneInactive]_vars

\* A subscription was created on a later day for a pair whose earlier
\* subscription is canceled.
C22_Witness ==
    /\ last.op = "create" /\ last.result = "201 created"
    /\ today > 0
    /\ subs[last.sub].start_date = today
    /\ \E i \in Rows : /\ i # last.sub
                       /\ subs[i].status = "canceled"
                       /\ subs[i].school_id = subs[last.sub].school_id
                       /\ subs[i].plan_id = subs[last.sub].plan_id

----------------------------------------------------------------------------
(* Further claims on invitation redemption (SpecReg) *)

\* The columns of an invitation row: validity is not one of them.
InvitationColumns == {"email", "role_id", "school_id", "expires_at", "used_at"}

\* A lookup of a known token passes exactly when the row is unused and expires
\* strictly after the clock of the lookup, and writes nothing to the row.
ValidityReadAtLookup ==
    \A r \in ReqIds, tok \in Tokens :
        RegLookup(r, tok)
        => /\ reg'[r].pc = "valid"
                <=> (invitations[tok].used_at = None /\ invitations[tok].expires_at > now)
           /\ reg'[r].pc # "valid"
                => reg'[r].resp = Resp(400, "Invalid or expired invitation token.")
           /\ invitations' = invitations

\* C23: for every invitation and every time now, is_valid is true exactly when
\* used_at is None and expires_at > now (an invitation whose expires_at equals
\* now is not valid); it is computed when the invitation is read, not stored.
C23_ValidityAtReadTime ==
    /\ [](\A t \in Tokens : DOMAIN invitations[t] = InvitationColumns)
    /\ [][ValidityReadAtLookup]_vars

\* One request passed the validity check for an invitation, and a second one
\* was rejected for the same, still unused invitation at the instant it expires.
C23_Witness ==
    \E r1, r2 \in ReqIds :
        /\ reg[r1].token \in Tokens /\ reg[r2].token = reg[r1].token
        /\ reg[r1].pc \in {"valid", "checked"}
        /\ reg[r2].resp = Resp(400, "Invalid or expired invitation token.")
        /\ invitations[reg[r1].token].used_at = None
        /\ invitations[reg[r1].token].expires_at = now

----------------------------------------------------------------------------
(* Claims on asset categories (SpecCategory) *)

NamesDistinct ==
    \A i, j \in get_all_asset_categories(asset_categories) :
        asset_categories[i].name = asset_categories[j].name => i = j

DuplicateCreateRefused ==
    \A name \in CategoryNames, d \in CategoryDescriptions :
        (/\ create_new_asset_category(name, d)
         /\ \E i \in get_all_asset_categories(asset_categories) :
                asset_categories[i].name = name)
        => /\ clast'.code = 400
           /\ clast'.detail = "already exists"
           /\ asset_categories' = asset_categories

\* C24: creating an asset category whose name equals that of an existing
\* category fails with a client error saying it already exists and leaves the
\* categories unchanged; after any sequence of category creations, updates and
\* deletions the names of the categories are pairwise distinct.
C24_CategoryNamesUnique == []NamesDistinct /\ [][DuplicateCreateRefused]_vars

\* A creation was refused for the name of a category that is not the newest
\* row, in a table from which a category has been deleted.
C24_Witness ==
    /\ clast.op = "create" /\ clast.code = 400
    /\ \E i \in get_all_asset_categories(asset_categories) :
            /\ asset_categories[i].name = clast.name
            /\ i < Len(asset_categories)
    /\ \E j \in 1..Len(asset_categories) : ~asset_categories[j].present

----------------------------------------------------------------------------
(* Claims on callers whose account is not active (SpecSuspended) *)

\* The account is suspended, pending or soft-deleted.
NotActiveAccount(u) == users[u].status # "active" \/ users[u].deleted_at # None

\* The step handled a call of the /admin-users or /invitations routes, or of
\* the asset routes, made by u.
CalledBy(u) ==
    \/ alast' # alast /\ alast'.caller = u
    \/ aslast' # aslast /\ aslast'.user = u

RefusedUnchanged ==
    /\ alast' # alast => alast'.code \in {401, 403}
    /\ aslast' # aslast => aslast'.code \in {401, 403}
    /\ UNCHANGED <<users, user_roles, invitations, outbox, assets, qr_codes, asset_events>>

\* C25: no protected operation (the /admin-users operations, invitation
\* creation, asset creation, update and deletion, the dashboard) is performed
\* for a caller whose account is suspended, pending or soft-deleted at the time
\* of the call; the call is refused and nothing is written.
C25_InactiveCallerRefused ==
    [][\A u \in 1..2 : (NotActiveAccount(u) /\ CalledBy(u)) => RefusedUnchanged]_vars

\* The /admin-users operations alone: a caller whose account is not active is
\* answered 401 and no user row changes.
AdminUsersRefuseInactive ==
    [][\A u \in 1..2 :
         (NotActiveAccount(u) /\ alast' # alast /\ alast'.caller = u /\ alast'.op \in AdminOps)
         => alast'.code = 401 /\ users' = users]_vars

----------------------------------------------------------------------------
(* Further claims on subscriptions: one running subscription per pair *)

\* C26 (SpecSub): in every reachable state, each (school, plan) pair has at
\* most one subscription whose status is active or past_due, after any
\* sequence of creations, payment webhooks, manual renewals and expiry sweeps.
C26_OneRunningPerPair ==
    \A pr \in Pairs : Cardinality(RowsOfPair(pr, {"active", "past_due"})) <= 1

----------------------------------------------------------------------------
(* Further claims on the payment webhook *)

\* The payment of gateway id gid for subscription sid is already recorded.
Recorded(sid, gid) ==
    \E k \in 1..Len(payments) :
        payments[k].subscription_id = sid /\ payments[k].gateway_payment_id = gid

\* C27 (SpecSub): webhook handling is idempotent per gateway payment id:
\* delivering a payment_intent.succeeded event whose payment is already
\* recorded leaves the state as the first delivery left it (no second Payment
\* row, no further extension of the subscription).
C27_WebhookIdempotent ==
    [][\A sid \in SubIds, gid \in GatewayIds :
         (Recorded(sid, gid) /\ handle_payment_webhook(sid, gid))
         => subs' = subs /\ payments' = payments]_vars

----------------------------------------------------------------------------
(* Further claims on the /admin-users operations (SpecAdmin) *)

\* C28: DELETE /admin-users/{user_id} by a super admin whose own id is
\* user_id is answered 400 ('Cannot delete yourself') and leaves the user
\* unchanged.
C28_CannotDeleteYourself ==
    [][\A caller \in 1..2 :
         (get_super_admin(caller) = 200 /\ delete_user_account(caller, caller))
         => alast'.code = 400 /\ users' = users]_vars

----------------------------------------------------------------------------
(* Further claims on invitation redemption: existing pending users *)

\* Some user with email e is active or suspended.
ActiveOrSuspended(e) ==
    \E u \in UsersByEmail(e) : users[u].status \in {"active", "suspended"}

\* C29 (SpecReg): a registration with a valid invitation that reaches the
\* INSERT while no active or suspended user has the invitation's email
\* creates an active user with the invitation's role, also when a pending
\* user with that email exists.
C29_PendingUserDoesNotBlock ==
    [][\A r \in ReqIds :
         (RegInsert(r) /\ ~ActiveOrSuspended(invitations[reg[r].token].email))
         => /\ Len(users') = Len(users) + 1
            /\ users'[Len(users')].email = invitations[reg[r].token].email
            /\ users'[Len(users')].status = "active"
            /\ [user_id |-> Len(users'), role_id |-> invitations[reg[r].token].role_id,
                school_id |-> invitations[reg[r].token].school_id] \in user_roles']_vars

----------------------------------------------------------------------------
(* Further claims on incidents (SpecIncident) *)

\* C30 as claimed: in every reachable state an incident's resolved_at is
\* non-null exactly when its status is resolved or closed.
C30_ResolvedAtIffResolved ==
    \A i \in DOMAIN incidents :
        incidents[i].present
        => (incidents[i].resolved_at # None <=> incidents[i].status \in Resolved)

\* resolved_at gets its value only in a step that leaves the incident
\* resolved or closed.
StampedOnlyOnResolution ==
    \A i \in DOMAIN incidents :
        (incidents[i].present /\ incidents[i].resolved_at = None
         /\ incidents'[i].resolved_at # None)
        => incidents'[i].status \in Resolved

\* C30 as the code has it: an incident whose status is resolved or closed has
\* a resolved_at, and an incident has a resolved_at only if it has been
\* resolved or closed at some time; a reopened incident keeps it.
C30_ResolvedHasResolvedAt ==
    /\ [](\A i \in DOMAIN incidents :
            (incidents[i].present /\ incidents[i].status \in Resolved)
            => incidents[i].resolved_at # None)
    /\ [](\A i \in DOMAIN incidents :
            (incidents[i].present /\ incidents[i].status = "open"
             /\ aslast.op = "create_incident" /\ aslast.target = i)
            => incidents[i].resolved_at = None)
    /\ [][StampedOnlyOnResolution]_vars

\* An incident that was resolved or closed has just been reopened and still
\* carries its resolved_at.
C30_Witness ==
    \E i \in DOMAIN incidents :
        /\ aslast.op = "update_incident" /\ aslast.code = 200 /\ aslast.target = i
        /\ aslast.note \in Resolved
        /\ incidents[i].present
        /\ incidents[i].status \in {"open", "in_progress"}
        /\ incidents[i].resolved_at # None

====
